---- MODULE Spec2Model ----
(***************************************************************************)
(* simple-midi-synth: the MIDI stream parser (synth/midi.go), the tempo    *)
(* timer (internal/time/timer.go), the MIDI-to-WAV conversion (MIDIToWAV)  *)
(* and the WAVE writer (wavData), as state machines.                       *)
(*                                                                         *)
(* Conventions.                                                            *)
(*  - A byte slice is a sequence of 0..255; Go's index i is i+1 here.      *)
(*  - A Go string is the sequence of its code points.                      *)
(*  - Go's int is the 64-bit int; the inputs keep every value far from its *)
(*    ends.                                                                *)
(*  - A float32 number of seconds is an exact rational [n / d], or one of  *)
(*    the IEEE values +Inf and NaN that a division by zero produces; the   *)
(*    rounding of float32 arithmetic is not modelled.                      *)
(*  - A run-time panic (index or slice bound out of range) ends the run    *)
(*    with result "panic".                                                 *)
(***************************************************************************)
EXTENDS Integers, Sequences, FiniteSets, TLC

VARIABLES
    input,        \* the bytes the reader handed to MIDIToWAV yields
    pc,           \* position in MIDIToWAV / in the driver of a component
    result,       \* "none" while running, then "ok", an error text or "panic"
    midiStream,   \* the stream over the whole file
    trackCount, timeDivision,
    i,            \* index of the chunk loop
    trackChunk,   \* the chunk being parsed
    trackStream,  \* the stream over trackChunk.data
    track,        \* the events read from trackChunk so far
    tracks,       \* the parsed tracks
    timer,        \* *time.Timer
    ti, tj,       \* indices of the tempo and note loops (track, event)
    delta,        \* the loop's tick accumulator
    m,            \* the track's map from semitone to its stack of noteValues
    prog,         \* []*progression
    events,       \* []*noteEvent
    sweep,        \* maxVelocity, velocity, maxChord, chord
    wav,          \* *wavData
    out,          \* the returned buffer, or Nil
    calls         \* the calls a component's driver has made so far, with their results

vars == <<input, pc, result, midiStream, trackCount, timeDivision, i, trackChunk,
          trackStream, track, tracks, timer, ti, tj, delta, m, prog, events,
          sweep, wav, out, calls>>

Nil == [nil |-> TRUE]

\* ---------------------------------------------------------------- bounds

\* events per track in the generated one-track files
MaxEvents == 4
\* events per track in the generated two-track files
MaxEventsTwo == 2
\* bytes cut from the end of a file in the truncated inputs
MaxCut == 2
\* events per track in the generated files with zero-velocity events
MaxZeroEvents == 3

\* -------------------------------------------------------- strings, numbers

Max(a, b) == IF a >= b THEN a ELSE b

Min(a, b) == IF a <= b THEN a ELSE b

RECURSIVE GCD(_, _)
GCD(a, b) == IF b = 0 THEN a ELSE GCD(b, a % b)

EmptyMap == [k \in {} |-> <<>>]

\* value[k] of a Go map[string]string: the empty string for a missing key
MapGet(v, k) == IF k \in DOMAIN v THEN v[k] ELSE <<>>

\* fmt.Sprintf("%d", n) for n >= 0
RECURSIVE FormatDec(_)
FormatDec(n) == IF n < 10 THEN <<48 + n>> ELSE FormatDec(n \div 10) \o <<48 + (n % 10)>>

IsDigits(s) == Len(s) > 0 /\ \A k \in 1..Len(s) : s[k] \in 48..57

RECURSIVE DigitsValue(_, _)
DigitsValue(s, acc) ==
    IF s = <<>> THEN acc ELSE DigitsValue(Tail(s), acc * 10 + (Head(s) - 48))

\* v, _ := strconv.Atoi(s): 0 when s is no decimal number
Atoi(s) ==
    IF IsDigits(s) THEN DigitsValue(s, 0)
    ELSE IF Len(s) > 1 /\ s[1] = 43 /\ IsDigits(Tail(s)) THEN DigitsValue(Tail(s), 0)
    ELSE IF Len(s) > 1 /\ s[1] = 45 /\ IsDigits(Tail(s)) THEN 0 - DigitsValue(Tail(s), 0)
    ELSE 0

\* the decimal digits of twice the number whose decimal digits are s
RECURSIVE DoubleDec(_, _)
DoubleDec(s, carry) ==
    IF s = <<>> THEN (IF carry = 0 THEN <<>> ELSE <<48 + carry>>)
    ELSE LET last == s[Len(s)] - 48
             x == 2 * last + carry
         IN DoubleDec(SubSeq(s, 1, Len(s) - 1), x \div 10) \o <<48 + (x % 10)>>

RECURSIVE Pow2Dec(_)
Pow2Dec(b) == IF b = 0 THEN <<49>> ELSE DoubleDec(Pow2Dec(b - 1), 0)

\* fmt.Sprintf("%d", 1<<int(b)) on a 64-bit int
FormatShl1(b) ==
    IF b >= 64 THEN <<48>>
    ELSE IF b = 63 THEN <<45>> \o Pow2Dec(63)
    ELSE Pow2Dec(b)

\* fmt.Sprintf("%f", []float32{24, 25, 29.97, 30}[k])
FrameRateText(k) ==
    CASE k = 0 -> <<50, 52, 46, 48, 48, 48, 48, 48, 48>>
      [] k = 1 -> <<50, 53, 46, 48, 48, 48, 48, 48, 48>>
      [] k = 2 -> <<50, 57, 46, 57, 54, 57, 57, 57, 57>>
      [] OTHER -> <<51, 48, 46, 48, 48, 48, 48, 48, 48>>

\* ------------------------------------------------------------ midiStream

newMIDIStream(data) == [data |-> data, byteOffset |-> 0, lastEventTypeByte |-> 0]

\* m.data[k]; a read past the end panics in the code: the caller compares the
\* highest index read with the length, and 0 stands for the byte never used
ByteAt(data, k) == IF k >= 0 /\ k < Len(data) THEN data[k + 1] ELSE 0

\* the code points readString(n) collects from offset off
StringAt(data, off, n) ==
    IF n <= 0 \/ off + n > Len(data) THEN <<>>
    ELSE [k \in 1..n |-> data[off + k]]

Uint16At(data, off) == ByteAt(data, off) * 256 + ByteAt(data, off + 1)

Uint24At(data, off) ==
    ByteAt(data, off) * 65536 + ByteAt(data, off + 1) * 256 + ByteAt(data, off + 2)

Uint32At(data, off) ==
    ByteAt(data, off) * 16777216 + ByteAt(data, off + 1) * 65536
        + ByteAt(data, off + 2) * 256 + ByteAt(data, off + 3)

\* a loop that shifts the value by 8 bits for each byte
RECURSIVE VarUintLoopWide(_, _, _)
VarUintLoopWide(data, off, value) ==
    LET ui8 == ByteAt(data, off)
        v == value * 256 + (ui8 % 128)
    IN IF off >= Len(data) THEN [value |-> value, byteOffset |-> off + 1]
       ELSE IF ui8 \div 128 = 1 THEN VarUintLoopWide(data, off + 1, v)
       ELSE [value |-> v, byteOffset |-> off + 1]

\* readVarUint from offset off: the value and the offset after the last byte
\* read; a read at or past the end of the data panics in the code, and the
\* offset returned is then past the end
RECURSIVE VarUintLoop(_, _, _)
VarUintLoop(data, off, value) ==
    LET ui8 == ByteAt(data, off)
        v == value * 128 + (ui8 % 128)
    IN IF off >= Len(data) THEN [value |-> value, byteOffset |-> off + 1]
       ELSE IF ui8 \div 128 = 1 THEN VarUintLoop(data, off + 1, v)
       ELSE [value |-> v, byteOffset |-> off + 1]

readVarUint(data, off) == VarUintLoop(data, off, 0)

PanicOutcome == [panic |-> TRUE]

Zeros(n) == [k \in 1..n |-> 0]

\* the capacity of the slice ReadAll returns for a short input: 512 where it
\* reads into make([]byte, 0, 512), 1536 where it reads through a bytes.Buffer
\* that grows once more before it meets the end of the input
ReadAllCaps == {512, 1536}

\* readChunk: the outcomes the builds produce. The slice expression
\* m.data[byteOffset:m.byteOffset] is checked against the capacity of m.data,
\* not its length: past the capacity it panics, and between the length and the
\* capacity it yields the zero bytes of the spare capacity.
readChunk(s) ==
    LET data == s.data
        off == s.byteOffset
        length == Uint32At(data, off + 4)
        start == off + 8
        end == start + length
        ok(bytes) == [panic |-> FALSE,
                      chunk |-> [id |-> StringAt(data, off, 4), length |-> length,
                                 data |-> bytes],
                      stream |-> [s EXCEPT !.byteOffset = end]]
    IN IF start > Len(data) THEN {PanicOutcome}
       ELSE IF end <= Len(data) THEN {ok(SubSeq(data, start + 1, end))}
       ELSE {IF end <= Max(Len(data), c)
             THEN ok(SubSeq(data, start + 1, Len(data)) \o Zeros(end - Len(data)))
             ELSE PanicOutcome : c \in ReadAllCaps}

midiEvent(delta_, eventType, subType, value, channel) ==
    [delta |-> delta_, eventType |-> eventType, subType |-> subType,
     value |-> value, channel |-> channel]

\* what readEvent returns and leaves in the stream; read is one past the
\* highest index it read
EventOutcome(s, read, newOffset, last, event) ==
    [panic |-> read > Len(s.data),
     event |-> event,
     stream |-> [s EXCEPT !.byteOffset = newOffset, !.lastEventTypeByte = last]]

\* case 0xff of readEvent; p is the offset after the status byte
readMetaEvent(s, delta_, p) ==
    LET data == s.data
        subTypeByte == ByteAt(data, p)
        lv == readVarUint(data, p + 1)
        length == lv.value
        q == lv.byteOffset
        last == s.lastEventTypeByte
        ev(subType, value) == midiEvent(delta_, "meta", subType, value, 0)
        text(subType) ==
            EventOutcome(s, q + length, q + length, last,
                         ev(subType, "value" :> StringAt(data, q, length)))
        fixed(subType, n, value) ==
            IF length = n
            THEN EventOutcome(s, q + n, q + n, last, ev(subType, value))
            ELSE EventOutcome(s, q, q + length, last, ev(subType, EmptyMap))
        num(k) == FormatDec(ByteAt(data, q + k))
    IN CASE subTypeByte = 0 ->
              fixed("sequenceNumber", 2, "value" :> FormatDec(Uint16At(data, q)))
         [] subTypeByte = 1 -> text("text")
         [] subTypeByte = 2 -> text("copyrightNotice")
         [] subTypeByte = 3 -> text("trackName")
         [] subTypeByte = 4 -> text("instrumentName")
         [] subTypeByte = 5 -> text("lyrics")
         [] subTypeByte = 6 -> text("marker")
         [] subTypeByte = 7 -> text("cuePoint")
         [] subTypeByte = 32 -> fixed("midiChannelPrefix", 1, "value" :> num(0))
         [] subTypeByte = 47 ->
              EventOutcome(s, q, q + length, last, ev("endOfTrack", EmptyMap))
         [] subTypeByte = 81 ->
              fixed("setTempo", 3, "value" :> FormatDec(Uint24At(data, q)))
         [] subTypeByte = 84 ->
              fixed("smpteOffset", 5,
                    ("frameRate" :> FrameRateText(ByteAt(data, q) \div 64))
                    @@ ("hour" :> FormatDec(ByteAt(data, q) % 64))
                    @@ ("minute" :> num(1)) @@ ("second" :> num(2))
                    @@ ("frame" :> num(3)) @@ ("subFrame" :> num(4)))
         [] subTypeByte = 88 ->
              fixed("timeSignature", 4,
                    ("numerator" :> num(0)) @@ ("denominator" :> num(1))
                    @@ ("metronome" :> FormatShl1(ByteAt(data, q + 2)))
                    @@ ("thirtyseconds" :> num(3)))
         [] subTypeByte = 89 ->
              fixed("keySignature", 2, ("key" :> num(0)) @@ ("scale" :> num(1)))
         [] subTypeByte = 127 -> text("sequencerSpecific")
         [] OTHER -> text("unknown")

\* cases 0xf0, 0xf7 and default of the system branch of readEvent
readSysEvent(s, delta_, eventTypeByte, p) ==
    LET lv == readVarUint(s.data, p)
        end == lv.byteOffset + lv.value
        eventType == CASE eventTypeByte = 240 -> "sysEx"
                       [] eventTypeByte = 247 -> "dividedSysEx"
                       [] OTHER -> "unknown"
    IN EventOutcome(s, end, end, s.lastEventTypeByte,
                    midiEvent(delta_, eventType, "",
                              "value" :> StringAt(s.data, lv.byteOffset, lv.value), 0))

\* a channel branch that remembers the byte at the status position, whatever
\* its top bit
readChannelEventStoresFirst(s, delta_, firstByte, p) ==
    LET data == s.data
        running == firstByte \div 128 = 0
        param == IF running THEN firstByte ELSE ByteAt(data, p)
        eventTypeByte == IF running THEN s.lastEventTypeByte ELSE firstByte
        last == firstByte
        q == IF running THEN p ELSE p + 1
        channelEventType == eventTypeByte \div 16
        channel == eventTypeByte % 16
        second == ByteAt(data, q)
        ev(subType, value) == midiEvent(delta_, "channel", subType, value, channel)
        two(subType, k1, k2) ==
            EventOutcome(s, q + 1, q + 1, last,
                         ev(subType, (k1 :> FormatDec(param)) @@ (k2 :> FormatDec(second))))
        one(subType, value) == EventOutcome(s, q, q, last, ev(subType, "value" :> value))
    IN CASE channelEventType = 8 -> two("noteOff", "noteNumber", "velocity")
         [] channelEventType = 9 ->
              two(IF Atoi(FormatDec(second)) = 0 THEN "noteOff" ELSE "noteOn",
                  "noteNumber", "velocity")
         [] channelEventType = 10 -> two("noteAftertouch", "noteNumber", "amount")
         [] channelEventType = 11 -> two("controller", "controllerNumber", "controllerValue")
         [] channelEventType = 12 -> one("programChange", FormatDec(param))
         [] channelEventType = 13 -> one("channelAftertouch", FormatDec(param))
         [] channelEventType = 14 ->
              EventOutcome(s, q + 1, q + 1, last,
                           ev("pitchBend", "value" :> FormatDec(param + second * 128)))
         [] OTHER ->
              EventOutcome(s, q + 1, q + 1, last,
                           ev("unknown", "value" :> FormatDec(param * 256 + second)))

\* a channel branch that decodes status nibble 9 as noteOn whatever the velocity
readChannelEventAlwaysOn(s, delta_, firstByte, p) ==
    LET data == s.data
        running == firstByte \div 128 = 0
        param == IF running THEN firstByte ELSE ByteAt(data, p)
        eventTypeByte == IF running THEN s.lastEventTypeByte ELSE firstByte
        last == eventTypeByte
        q == IF running THEN p ELSE p + 1
        channelEventType == eventTypeByte \div 16
        channel == eventTypeByte % 16
        second == ByteAt(data, q)
        ev(subType, value) == midiEvent(delta_, "channel", subType, value, channel)
        two(subType, k1, k2) ==
            EventOutcome(s, q + 1, q + 1, last,
                         ev(subType, (k1 :> FormatDec(param)) @@ (k2 :> FormatDec(second))))
        one(subType, value) == EventOutcome(s, q, q, last, ev(subType, "value" :> value))
    IN CASE channelEventType = 8 -> two("noteOff", "noteNumber", "velocity")
         [] channelEventType = 9 ->
              two("noteOn", "noteNumber", "velocity")
         [] channelEventType = 10 -> two("noteAftertouch", "noteNumber", "amount")
         [] channelEventType = 11 -> two("controller", "controllerNumber", "controllerValue")
         [] channelEventType = 12 -> one("programChange", FormatDec(param))
         [] channelEventType = 13 -> one("channelAftertouch", FormatDec(param))
         [] channelEventType = 14 ->
              EventOutcome(s, q + 1, q + 1, last,
                           ev("pitchBend", "value" :> FormatDec(param + second * 128)))
         [] OTHER ->
              EventOutcome(s, q + 1, q + 1, last,
                           ev("unknown", "value" :> FormatDec(param * 256 + second)))

\* the channel branch of readEvent; p is the offset after the status byte
readChannelEvent(s, delta_, firstByte, p) ==
    LET data == s.data
        running == firstByte \div 128 = 0
        param == IF running THEN firstByte ELSE ByteAt(data, p)
        eventTypeByte == IF running THEN s.lastEventTypeByte ELSE firstByte
        last == eventTypeByte
        q == IF running THEN p ELSE p + 1
        channelEventType == eventTypeByte \div 16
        channel == eventTypeByte % 16
        second == ByteAt(data, q)
        ev(subType, value) == midiEvent(delta_, "channel", subType, value, channel)
        two(subType, k1, k2) ==
            EventOutcome(s, q + 1, q + 1, last,
                         ev(subType, (k1 :> FormatDec(param)) @@ (k2 :> FormatDec(second))))
        one(subType, value) == EventOutcome(s, q, q, last, ev(subType, "value" :> value))
    IN CASE channelEventType = 8 -> two("noteOff", "noteNumber", "velocity")
         [] channelEventType = 9 ->
              two(IF Atoi(FormatDec(second)) = 0 THEN "noteOff" ELSE "noteOn",
                  "noteNumber", "velocity")
         [] channelEventType = 10 -> two("noteAftertouch", "noteNumber", "amount")
         [] channelEventType = 11 -> two("controller", "controllerNumber", "controllerValue")
         [] channelEventType = 12 -> one("programChange", FormatDec(param))
         [] channelEventType = 13 -> one("channelAftertouch", FormatDec(param))
         [] channelEventType = 14 ->
              EventOutcome(s, q + 1, q + 1, last,
                           ev("pitchBend", "value" :> FormatDec(param + second * 128)))
         [] OTHER ->
              EventOutcome(s, q + 1, q + 1, last,
                           ev("unknown", "value" :> FormatDec(param * 256 + second)))

readEvent(s) ==
    LET dv == readVarUint(s.data, s.byteOffset)
        eventTypeByte == ByteAt(s.data, dv.byteOffset)
        p == dv.byteOffset + 1
    IN IF eventTypeByte \div 16 = 15
       THEN IF eventTypeByte = 255 THEN readMetaEvent(s, dv.value, p)
            ELSE readSysEvent(s, dv.value, eventTypeByte, p)
       ELSE readChannelEvent(s, dv.value, eventTypeByte, p)

\* ------------------------------------------------------------- float32

Fin(n, d) == [k |-> "fin", n |-> n, d |-> d]

NaN == [k |-> "nan", n |-> 0, d |-> 1]

PosInf == [k |-> "inf", n |-> 0, d |-> 1]

NegInf == [k |-> "ninf", n |-> 0, d |-> 1]

IsFinite(x) == x.k = "fin"

\* x + y; finite operands share their denominator
FAdd(x, y) ==
    CASE x.k = "nan" \/ y.k = "nan" -> NaN
      [] x.k = "inf" -> IF y.k = "ninf" THEN NaN ELSE PosInf
      [] x.k = "ninf" -> IF y.k = "inf" THEN NaN ELSE NegInf
      [] y.k = "inf" -> PosInf
      [] y.k = "ninf" -> NegInf
      [] OTHER -> Fin(x.n + y.n, x.d)

FNeg(x) ==
    CASE x.k = "inf" -> NegInf
      [] x.k = "ninf" -> PosInf
      [] x.k = "nan" -> NaN
      [] OTHER -> Fin(0 - x.n, x.d)

FSub(x, y) == FAdd(x, FNeg(y))

\* x >= 0, which no NaN satisfies
FGeqZero(x) == x.k = "inf" \/ (x.k = "fin" /\ x.n >= 0)

RECURSIVE IsPowerOfTwo(_)
IsPowerOfTwo(d) == d = 1 \/ (d > 1 /\ d % 2 = 0 /\ IsPowerOfTwo(d \div 2))

\* the spacing of the float32 values around a: the least power of two p with
\* a < 2^24 * p
RECURSIVE MantissaUnit(_, _)
MantissaUnit(a, p) == IF a \div p < 16777216 THEN p ELSE MantissaUnit(a, 2 * p)

\* the float32 nearest to x, ties to the even mantissa: what a float32
\* operation keeps of its exact result. A binary fraction is rounded as the
\* hardware rounds it; a fraction with another denominator stands for the
\* float32 next to it and is kept as it is.
Float32(x) ==
    IF ~IsFinite(x) THEN x
    ELSE IF ~IsPowerOfTwo(x.d) THEN x
    ELSE LET a == IF x.n < 0 THEN 0 - x.n ELSE x.n
             p == MantissaUnit(a, 1)
             q == a \div p
             rem == a % p
             up == 2 * rem > p \/ (2 * rem = p /\ q % 2 = 1)
             r == (IF up THEN q + 1 ELSE q) * p
         IN Fin(IF x.n < 0 THEN 0 - r ELSE r, x.d)

\* int(math.Round(float64(rate) * float64(x))) for a finite x >= 0: half away
\* from zero, computed on the reduced fraction
RoundScaled(rate, x) ==
    LET g == GCD(rate, x.d)
        r == rate \div g
        d == x.d \div g
        whole == x.n \div d
        part == r * (x.n % d)
    IN r * whole + (part \div d) + (IF 2 * (part % d) >= d THEN 1 ELSE 0)

\* ---------------------------------------------------- internal/time.Timer

microsecondsPerSecond == 1000000

microsecondsPerBeatDefault == 500000

NewTimer(ticksPerBeat) == [ticksPerBeat |-> ticksPerBeat, criticalPoints |-> <<>>]

AddCriticalPoint(t, delta_, microsecondsPerBeat) ==
    [t EXCEPT !.criticalPoints =
        Append(@, [delta |-> delta_, microsecondsPerBeat |-> microsecondsPerBeat])]

\* float32(ticks*microsecondsPerBeat) / float32(ticksPerBeat) / microsecondsPerSecond
TimeTerm(ticks, microsecondsPerBeat, ticksPerBeat) ==
    IF ticksPerBeat = 0
    THEN (IF ticks * microsecondsPerBeat = 0 THEN NaN ELSE PosInf)
    ELSE Fin(ticks * microsecondsPerBeat, ticksPerBeat * microsecondsPerSecond)

\* a loop that forgets the time of every span the ticks cover wholly
RECURSIVE TimeLoopSkipsSpan(_, _, _, _, _)
TimeLoopSkipsSpan(t, k, delta_, microsecondsPerBeat, time) ==
    IF k < Len(t.criticalPoints) /\ delta_ > 0
    THEN LET cp == t.criticalPoints[k + 1]
         IN IF delta_ >= cp.delta
            THEN TimeLoopSkipsSpan(t, k + 1, delta_ - cp.delta, cp.microsecondsPerBeat, time)
            ELSE TimeLoopSkipsSpan(t, k + 1, 0, cp.microsecondsPerBeat,
                                   FAdd(time, TimeTerm(delta_, microsecondsPerBeat,
                                                       t.ticksPerBeat)))
    ELSE FAdd(time, TimeTerm(delta_, microsecondsPerBeat, t.ticksPerBeat))

\* a loop that charges each span at the tempo its critical point sets
RECURSIVE TimeLoopNewTempo(_, _, _, _, _)
TimeLoopNewTempo(t, k, delta_, microsecondsPerBeat, time) ==
    IF k < Len(t.criticalPoints) /\ delta_ > 0
    THEN LET cp == t.criticalPoints[k + 1]
             ticks == IF delta_ >= cp.delta THEN cp.delta ELSE delta_
         IN TimeLoopNewTempo(t, k + 1, delta_ - ticks, cp.microsecondsPerBeat,
                             FAdd(time, TimeTerm(ticks, cp.microsecondsPerBeat,
                                                 t.ticksPerBeat)))
    ELSE FAdd(time, TimeTerm(delta_, microsecondsPerBeat, t.ticksPerBeat))

\* the loop of Time from index k (0-based), and the statement after it
RECURSIVE TimeLoop(_, _, _, _, _)
TimeLoop(t, k, delta_, microsecondsPerBeat, time) ==
    IF k < Len(t.criticalPoints) /\ delta_ > 0
    THEN LET cp == t.criticalPoints[k + 1]
         IN IF delta_ >= cp.delta
            THEN TimeLoop(t, k + 1, delta_ - cp.delta, cp.microsecondsPerBeat,
                          FAdd(time, TimeTerm(cp.delta, microsecondsPerBeat, t.ticksPerBeat)))
            ELSE TimeLoop(t, k + 1, 0, cp.microsecondsPerBeat,
                          FAdd(time, TimeTerm(delta_, microsecondsPerBeat, t.ticksPerBeat)))
    ELSE FAdd(time, TimeTerm(delta_, microsecondsPerBeat, t.ticksPerBeat))

Time(t, delta_) ==
    TimeLoop(t, 0, delta_, microsecondsPerBeatDefault,
             Fin(0, IF t.ticksPerBeat = 0 THEN 1 ELSE t.ticksPerBeat * microsecondsPerSecond))

\* ------------------------------------------------------------ pitch model

ToneNames == <<<<67>>, <<67, 35>>, <<68>>, <<68, 35>>, <<69>>, <<70>>, <<70, 35>>,
               <<71>>, <<71, 35>>, <<65>>, <<65, 35>>, <<66>>>>

RestName == <<82, 69, 83, 84>>

\* fmt's %d of an int
FormatInt(n) == IF n < 0 THEN <<45>> \o FormatDec(0 - n) ELSE FormatDec(n)

\* noteFromSemitone: the name, whether an error is returned, whether it panics
\* (a negative index into octaves or tones)
noteFromSemitone(semitone) ==
    LET octaveIndex == semitone \div 12
        toneIndex == semitone - octaveIndex * 12
    IN IF octaveIndex >= 12 THEN [name |-> RestName, err |-> TRUE, panic |-> FALSE]
       ELSE IF toneIndex >= 12 THEN [name |-> RestName, err |-> TRUE, panic |-> FALSE]
       ELSE IF octaveIndex < 0 \/ toneIndex < 0
            THEN [name |-> <<>>, err |-> FALSE, panic |-> TRUE]
       ELSE LET tone == ToneNames[toneIndex + 1]
                octave == octaveIndex - 1
            IN [name |-> IF Len(tone) = 1 THEN <<tone[1]>> \o FormatInt(octave)
                         ELSE <<tone[1]>> \o FormatInt(octave) \o <<tone[2]>>,
                err |-> FALSE, panic |-> FALSE]

\* ----------------------------------------------------------------- wavData

\* binary.LittleEndian.PutUint32(header[at:at+4], v), at 0-based
PutUint32(header, at, v) ==
    [k \in 1..Len(header) |->
        CASE k = at + 1 -> v % 256
          [] k = at + 2 -> (v \div 256) % 256
          [] k = at + 3 -> (v \div 65536) % 256
          [] k = at + 4 -> (v \div 16777216) % 256
          [] OTHER -> header[k]]

LittleEndianUint32(bytes, at) ==
    bytes[at + 1] + bytes[at + 2] * 256 + bytes[at + 3] * 65536 + bytes[at + 4] * 16777216

LittleEndianUint16(bytes, at) == bytes[at + 1] + bytes[at + 2] * 256

\* the header literal of newWAV
WAVHeaderLiteral ==
    <<82, 73, 70, 70,  0, 0, 0, 0,  87, 65, 86, 69,  102, 109, 116, 32,
      16, 0, 0, 0,  1, 0,  1, 0,  68, 172, 0, 0,  136, 88, 1, 0,
      2, 0,  16, 0,  100, 97, 116, 97,  0, 0, 0, 0>>

\* newWAV; the data argument is not used by the code
newWAV(numChannels, sampleRate, bitsPerSample, littleEndian) ==
    IF ~littleEndian
    THEN [err |-> "big endian is not supported", wav |-> Nil]
    ELSE [err |-> "nil",
          wav |-> [header |-> WAVHeaderLiteral, dataLen |-> 0, pointer |-> 0,
                   numChannels |-> numChannels, sampleRate |-> sampleRate,
                   bitsPerSample |-> bitsPerSample,
                   chunkSize |-> 0, subChunk2Size |-> 0]]

\* int(math.Round(float64(rate) * float64(x))); Go leaves the conversion of a
\* NaN or an infinity to the implementation: this is the saturating one for NaN
\* (the callers below state what the other implementations produce)
RoundToInt(rate, x) == IF IsFinite(x) THEN RoundScaled(rate, x) ELSE 0

seek(w, time) == [w EXCEPT !.pointer = w.numChannels * RoundToInt(w.sampleRate, time)]

\* for _, c := range channels: the highest index of w.data one block writes
MaxChannel(channels, numChannels) ==
    LET chs == IF channels = <<>> THEN [k \in 1..numChannels |-> k - 1] ELSE channels
    IN IF chs = <<>> THEN 0
       ELSE CHOOSE c \in {chs[k] : k \in 1..Len(chs)} : \A k \in 1..Len(chs) : chs[k] <= c

MinChannel(channels, numChannels) ==
    LET chs == IF channels = <<>> THEN [k \in 1..numChannels |-> k - 1] ELSE channels
    IN IF chs = <<>> THEN 0
       ELSE CHOOSE c \in {chs[k] : k \in 1..Len(chs)} : \A k \in 1..Len(chs) : chs[k] >= c

\* writeNote, without the values of the samples it writes
writeNote(w, note, time, amplitude, channels, blend, reset, relativeDuration) ==
    LET numChannels == w.numChannels
        blocksOut == RoundToInt(w.sampleRate, time)
        start == w.pointer
        stop == w.dataLen
        chs == IF channels = <<>> THEN [k \in 1..numChannels |-> k - 1] ELSE channels
        \* skipChannels[i] = channels[i] == -1 for i < numChannels
        skipPanics == Len(chs) < numChannels
        writes == blocksOut > 0 /\ Len(chs) > 0
        writePanics ==
            writes /\ (start + (blocksOut - 1) * numChannels + MaxChannel(chs, numChannels) >= stop
                       \/ start + MinChannel(chs, numChannels) < 0)
        end == Max(start + blocksOut * numChannels, stop) * (w.bitsPerSample \div 8)
        chunkSize == end + Len(w.header) - 8
    IN [panic |-> skipPanics \/ writePanics,
        wav |-> [w EXCEPT !.chunkSize = chunkSize,
                          !.subChunk2Size = end,
                          !.header = PutUint32(PutUint32(w.header, 4, chunkSize), 40, end),
                          !.pointer = IF reset THEN start
                                      ELSE start + blocksOut * numChannels]]

\* the first loop of writeProgression: the length of the data it allocates
RECURSIVE ProgressionMax(_, _, _)
ProgressionMax(w, notes, max) ==
    IF notes = <<>> THEN max
    ELSE LET sample == RoundToInt(w.sampleRate,
                                   Float32(FAdd(Head(notes).offset, Head(notes).time)))
             val == w.numChannels * (sample + 1)
         IN ProgressionMax(w, Tail(notes), IF max < val THEN val ELSE max)

\* the second loop of writeProgression
RECURSIVE ProgressionNotes(_, _, _, _, _)
ProgressionNotes(w, notes, amplitude, channels, blend) ==
    IF notes = <<>> THEN [panic |-> FALSE, wav |-> w]
    ELSE LET n == Head(notes)
             o == writeNote(seek(w, n.offset), n.note, n.time,
                            [a |-> n.amplitude, scale |-> amplitude], channels, blend, FALSE, 1)
         IN IF o.panic THEN [panic |-> TRUE, wav |-> o.wav]
            ELSE IF n.offset.k = "inf" /\ Len(notes) > 1
                 THEN ProgressionNotes([o.wav EXCEPT !.header = w.header,
                                                     !.chunkSize = w.chunkSize,
                                                     !.subChunk2Size = w.subChunk2Size],
                                       Tail(notes), amplitude, channels, blend)
                 ELSE ProgressionNotes(o.wav, Tail(notes), amplitude, channels, blend)

NonFinite(notes) ==
    {k \in 1..Len(notes) : ~IsFinite(notes[k].offset) \/ ~IsFinite(notes[k].time)}

\* writeProgression: the outcomes the build can produce. With a NaN or infinite
\* offset or duration the conversions to int are the implementation's: where
\* they give the minimum int, make panics (len out of range); where they
\* saturate, a NaN counts as 0 and an infinite offset leaves a data size that
\* typeData cannot serve, unless a later note patches the header again.
writeProgression(w, notes, amplitude, channels, blend, reset, relativeDuration) ==
    LET start == w.pointer
        sized == [w EXCEPT !.dataLen = ProgressionMax(w, notes, 0)]
        o == ProgressionNotes(sized, notes, amplitude, channels, blend)
        done == [panic |-> o.panic,
                 wav |-> IF reset THEN [o.wav EXCEPT !.pointer = start] ELSE o.wav]
    IN IF NonFinite(notes) = {} THEN {done}
       ELSE {PanicOutcome} \cup
            (IF notes[Len(notes)].offset.k # "inf" THEN {done} ELSE {})

\* typeData: the number of bytes of the buffer it returns, and whether it panics
typeData(w) ==
    LET bytesPerSample == w.bitsPerSample \div 8
        size == w.subChunk2Size
        samples == IF bytesPerSample = 0 THEN 0 ELSE size \div bytesPerSample
    IN [panic |-> \/ bytesPerSample = 0
                  \/ samples > w.dataLen
                  \/ (bytesPerSample = 1 /\ samples > 0 /\ (samples - 1) * 2 >= size),
        size |-> size]

\* toBuffer: the header followed by the bytes of typeData
toBuffer(w) ==
    LET d == typeData(w)
    IN [panic |-> d.panic, buffer |-> [header |-> w.header, dataSize |-> d.size]]

\* ------------------------------------------------------------ input files

MThd == <<77, 84, 104, 100>>

MTrk == <<77, 84, 114, 107>>

\* a chunk tag the code does not know
OtherTag == <<88, 70, 73, 72>>

U16(n) == <<n \div 256, n % 256>>

U24(n) == <<n \div 65536, (n \div 256) % 256, n % 256>>

U32(n) == <<n \div 16777216, (n \div 65536) % 256, (n \div 256) % 256, n % 256>>

\* a variable-length quantity below 2^14
VarUintBytes(n) == IF n < 128 THEN <<n>> ELSE <<128 + (n \div 128), n % 128>>

NoteOnBytes(d, pitch, velocity) == VarUintBytes(d) \o <<144, pitch, velocity>>

NoteOffBytes(d, pitch) == VarUintBytes(d) \o <<128, pitch, 0>>

SetTempoBytes(d, microseconds) == VarUintBytes(d) \o <<255, 81, 3>> \o U24(microseconds)

EndOfTrackBytes(d) == VarUintBytes(d) \o <<255, 47, 0>>

ChunkBytes(tag, declared, body) == tag \o U32(declared) \o body

HeaderBytes(tag, declared, trackCount_, division) ==
    ChunkBytes(tag, declared, U16(1) \o U16(trackCount_) \o U16(division))

RECURSIVE Concat(_)
Concat(ss) == IF ss = <<>> THEN <<>> ELSE Head(ss) \o Concat(Tail(ss))

SeqsUpTo(S, n) == UNION {[1..k -> S] : k \in 0..n}

\* the events of the generated tracks
Alphabet ==
    {NoteOnBytes(0, 60, 100), NoteOnBytes(1, 60, 40), NoteOffBytes(1, 60),
     NoteOffBytes(0, 60), NoteOnBytes(0, 64, 90), NoteOffBytes(1, 64),
     SetTempoBytes(1, 1000000)}

AlphabetTwo ==
    {NoteOnBytes(0, 60, 100), NoteOffBytes(1, 60), NoteOnBytes(1, 64, 90),
     NoteOffBytes(2, 64), SetTempoBytes(1, 250000)}

\* one track of up to MaxEvents events, 2 ticks per quarter note
OneTrackFiles ==
    {HeaderBytes(MThd, 6, 1, 2) \o ChunkBytes(MTrk, Len(Concat(b)), Concat(b)) :
        b \in SeqsUpTo(Alphabet, MaxEvents)}

\* two tracks of up to MaxEventsTwo events each
TwoTrackFiles ==
    {HeaderBytes(MThd, 6, 2, 2) \o ChunkBytes(MTrk, Len(Concat(a)), Concat(a))
                                \o ChunkBytes(MTrk, Len(Concat(b)), Concat(b)) :
        a \in SeqsUpTo(AlphabetTwo, MaxEventsTwo), b \in SeqsUpTo(AlphabetTwo, MaxEventsTwo)}

\* what may follow the header chunk in the files below
Tails ==
    {<<>>,
     ChunkBytes(MTrk, 8, NoteOnBytes(0, 60, 100) \o NoteOffBytes(1, 60)),
     ChunkBytes(MTrk, 4, NoteOffBytes(1, 60)),
     ChunkBytes(MTrk, 4, EndOfTrackBytes(0)),
     ChunkBytes(MTrk, 3, <<0, 144, 60>>),
     ChunkBytes(OtherTag, 2, <<1, 2>>)
        \o ChunkBytes(MTrk, 8, NoteOnBytes(0, 60, 100) \o NoteOffBytes(1, 60)),
     ChunkBytes(OtherTag, 2, <<1, 2>>)}

CutEnd(bytes, n) == SubSeq(bytes, 1, Max(0, Len(bytes) - n))

\* every kind of header chunk, complete or cut short
HeaderFiles ==
    {CutEnd(HeaderBytes(tag, declared, n, division) \o t, cut) :
        tag \in {MThd, OtherTag}, declared \in {6, 4, 7, 1000, 65536}, n \in 0..2,
        division \in {0, 2, 32768, 32770}, t \in Tails, cut \in 0..MaxCut}

\* the files of the specification's examples: 480 ticks per quarter note
ExampleFiles ==
    {HeaderBytes(MThd, 6, 1, 480)
        \o ChunkBytes(MTrk, 9, NoteOnBytes(0, 60, 100) \o NoteOffBytes(480, 60)),
     HeaderBytes(MThd, 6, 1, 480)
        \o ChunkBytes(MTrk, 17, SetTempoBytes(480, 1000000) \o NoteOnBytes(0, 60, 100)
                                \o NoteOffBytes(480, 60)),
     HeaderBytes(MThd, 6, 1, 2)
        \o ChunkBytes(MTrk, 22, SetTempoBytes(0, 0) \o SetTempoBytes(1, 0) \o <<0, 255, 81, 0>>
                                \o NoteOnBytes(1, 60, 100))}

\* events for the tracks below: a status byte 0x90 with and without velocity
\* 0, data bytes alone with and without velocity 0, and a status byte 0x80
ZeroVelocityEvents ==
    {NoteOnBytes(0, 60, 100), NoteOnBytes(1, 60, 0), <<1, 60, 0>>, <<0, 60, 90>>,
     NoteOffBytes(1, 60)}

\* one track of up to MaxZeroEvents of these events, 2 ticks per quarter note
ZeroVelocityFiles ==
    {HeaderBytes(MThd, 6, 1, 2) \o ChunkBytes(MTrk, Len(Concat(b)), Concat(b)) :
        b \in SeqsUpTo(ZeroVelocityEvents, MaxZeroEvents)}

\* first tracks without and with setTempo events around one note
FirstTracks ==
    {NoteOnBytes(0, 60, 100) \o NoteOffBytes(2, 60),
     SetTempoBytes(1, 250000) \o NoteOnBytes(0, 60, 100) \o NoteOffBytes(2, 60),
     NoteOnBytes(0, 60, 100) \o SetTempoBytes(1, 1000000) \o NoteOffBytes(1, 60)}

\* second tracks that differ in the values of their setTempo events alone
SecondTracks ==
    {SetTempoBytes(1, v) \o NoteOnBytes(1, 64, 90) \o SetTempoBytes(1, w)
        \o NoteOffBytes(2, 64) : v, w \in {250000, 1000000}}

\* two tracks, 2 ticks per quarter note, setTempo events in the second track
OtherTempoFiles ==
    {HeaderBytes(MThd, 6, 2, 2) \o ChunkBytes(MTrk, Len(a), a)
                                \o ChunkBytes(MTrk, Len(b), b) :
        a \in FirstTracks, b \in SecondTracks}

Inputs ==
    OneTrackFiles \cup TwoTrackFiles \cup HeaderFiles \cup ExampleFiles
        \cup OtherTempoFiles

\* -------------------------------------------------------------- MIDIToWAV

NoStream == newMIDIStream(<<>>)

NoChunk == [id |-> <<>>, length |-> 0, data |-> <<>>]

NoSweep == [maxVelocity |-> 1, velocity |-> 1, maxChord |-> 0, chord |-> 0]

\* the state before MIDIToWAV has read anything
Blank ==
    /\ result = "none"
    /\ midiStream = NoStream /\ trackCount = 0 /\ timeDivision = 0 /\ i = 0
    /\ trackChunk = NoChunk /\ trackStream = NoStream
    /\ track = <<>> /\ tracks = <<>>
    /\ timer = Nil /\ ti = 0 /\ tj = 0 /\ delta = 0
    /\ m = EmptyMap /\ prog = <<>> /\ events = <<>> /\ sweep = NoSweep
    /\ wav = Nil /\ out = Nil /\ calls = <<>>

Init == input \in Inputs /\ pc = "header" /\ Blank

\* return nil, err (or a panic): the conversion is over
Finish(r) == pc' = "done" /\ result' = r /\ out' = Nil

\* newMIDIStream, readChunk, the check of the header chunk, its three fields
ReadHeader ==
    /\ pc = "header"
    /\ \E o \in readChunk(newMIDIStream(input)) :
        IF o.panic
        THEN /\ Finish("panic")
             /\ UNCHANGED <<midiStream, trackCount, timeDivision>>
        ELSE IF o.chunk.id # MThd \/ o.chunk.length # 6
        THEN /\ Finish("invalid header")
             /\ midiStream' = o.stream
             /\ UNCHANGED <<trackCount, timeDivision>>
        ELSE /\ midiStream' = o.stream
             /\ trackCount' = Uint16At(o.chunk.data, 2)
             /\ timeDivision' = Uint16At(o.chunk.data, 4)
             /\ pc' = "chunks"
             /\ UNCHANGED <<result, out>>
    /\ UNCHANGED <<input, i, trackChunk, trackStream, track, tracks, timer, ti, tj,
                   delta, m, prog, events, sweep, wav, calls>>

\* one turn of the chunk loop up to the loop over the chunk's events
ReadTrackChunk ==
    /\ pc = "chunks" /\ i < trackCount
    /\ \E o \in readChunk(midiStream) :
        IF o.panic
        THEN /\ Finish("panic")
             /\ UNCHANGED <<midiStream, i, trackChunk, trackStream, track>>
        ELSE IF o.chunk.id # MTrk
        THEN /\ midiStream' = o.stream
             /\ i' = i + 1
             /\ UNCHANGED <<pc, result, out, trackChunk, trackStream, track>>
        ELSE /\ midiStream' = o.stream
             /\ trackChunk' = o.chunk
             /\ trackStream' = newMIDIStream(o.chunk.data)
             /\ track' = <<>>
             /\ pc' = "events"
             /\ UNCHANGED <<i, result, out>>
    /\ UNCHANGED <<input, trackCount, timeDivision, tracks, timer, ti, tj, delta, m,
                   prog, events, sweep, wav, calls>>

\* one turn of the loop over the events of a chunk
ReadEvent ==
    /\ pc = "events" /\ trackStream.byteOffset < trackChunk.length
    /\ LET o == readEvent(trackStream)
       IN IF o.panic
          THEN Finish("panic") /\ UNCHANGED <<trackStream, track>>
          ELSE /\ trackStream' = o.stream
               /\ track' = Append(track, o.event)
               /\ UNCHANGED <<pc, result, out>>
    /\ UNCHANGED <<input, midiStream, trackCount, timeDivision, i, trackChunk, tracks,
                   timer, ti, tj, delta, m, prog, events, sweep, wav, calls>>

\* the end of the loop over the events: the track joins the tracks
EndTrack ==
    /\ pc = "events" /\ ~(trackStream.byteOffset < trackChunk.length)
    /\ tracks' = Append(tracks, track)
    /\ i' = i + 1
    /\ pc' = "chunks"
    /\ UNCHANGED <<input, result, midiStream, trackCount, timeDivision, trackChunk,
                   trackStream, track, timer, ti, tj, delta, m, prog, events, sweep,
                   wav, out, calls>>

\* the test of the time division, NewTimer, and the first len(tracks[0])
CheckDivision ==
    /\ pc = "chunks" /\ ~(i < trackCount)
    /\ IF timeDivision \div 32768 = 0
       THEN /\ timer' = NewTimer(timeDivision)
            /\ IF tracks = <<>>
               THEN Finish("panic")
               ELSE pc' = "tempo" /\ UNCHANGED <<result, out>>
       ELSE Finish("unsupported format") /\ UNCHANGED timer
    /\ tj' = 0 /\ delta' = 0
    /\ UNCHANGED <<input, midiStream, trackCount, timeDivision, i, trackChunk,
                   trackStream, track, tracks, ti, m, prog, events, sweep, wav, calls>>

\* a turn of that loop that keeps counting the ticks after a setTempo event
TempoStepKeepsDelta ==
    /\ pc = "tempo" /\ tj < Len(tracks[1])
    /\ LET event == tracks[1][tj + 1]
           d == delta + event.delta
       IN IF event.subType = "setTempo"
          THEN /\ timer' = AddCriticalPoint(timer, d, Atoi(MapGet(event.value, "value")))
               /\ delta' = d
          ELSE /\ delta' = d
               /\ UNCHANGED timer
    /\ tj' = tj + 1
    /\ UNCHANGED <<input, pc, result, midiStream, trackCount, timeDivision, i,
                   trackChunk, trackStream, track, tracks, ti, m, prog, events, sweep,
                   wav, out, calls>>

\* one turn of the loop that sets the timer up from tracks[0]
TempoStep ==
    /\ pc = "tempo" /\ tj < Len(tracks[1])
    /\ LET event == tracks[1][tj + 1]
           d == delta + event.delta
       IN IF event.subType = "setTempo"
          THEN /\ timer' = AddCriticalPoint(timer, d, Atoi(MapGet(event.value, "value")))
               /\ delta' = 0
          ELSE /\ delta' = d
               /\ UNCHANGED timer
    /\ tj' = tj + 1
    /\ UNCHANGED <<input, pc, result, midiStream, trackCount, timeDivision, i,
                   trackChunk, trackStream, track, tracks, ti, m, prog, events, sweep,
                   wav, out, calls>>

\* the end of that loop
TempoDone ==
    /\ pc = "tempo" /\ ~(tj < Len(tracks[1]))
    /\ pc' = "notes"
    /\ ti' = 0 /\ tj' = 0 /\ delta' = 0 /\ m' = EmptyMap
    /\ UNCHANGED <<input, result, midiStream, trackCount, timeDivision, i, trackChunk,
                   trackStream, track, tracks, timer, prog, events, sweep, wav, out,
                   calls>>

noteValue(velocity, offset) == [velocity |-> velocity, offset |-> offset]

noteEvent(velocity, delta_, note) == [velocity |-> velocity, delta |-> delta_, note |-> note]

progression(note, time, amplitude, offset) ==
    [note |-> note, time |-> time, amplitude |-> amplitude, offset |-> offset]

\* m[semitone] = append(m[semitone], note), or the first stack of the semitone
PushNote(stacks, semitone, note) ==
    IF semitone \in DOMAIN stacks
    THEN [stacks EXCEPT ![semitone] = Append(@, note)]
    ELSE stacks @@ (semitone :> <<note>>)

\* a pairing that closes the oldest open noteOn instead of the latest
TopNoteOldest(stacks, semitone) == stacks[semitone][1]

\* note := m[semitone][len(m[semitone])-1]
TopNote(stacks, semitone) == stacks[semitone][Len(stacks[semitone])]

\* m[semitone] = m[semitone][:len(m[semitone])-1]
PopNote(stacks, semitone) ==
    [stacks EXCEPT ![semitone] = SubSeq(@, 1, Len(@) - 1)]

\* the segment a noteOff at cumulative tick d emits for the noteValue it closes
NoteSegment(t, semitone, note, d) ==
    progression(noteFromSemitone(semitone).name,
                FSub(Time(t, d), note.offset),
                Fin(note.velocity, 128),
                note.offset)

\* one turn of the loop over the events of tracks[ti]
NoteStep ==
    /\ pc = "notes" /\ ti < Len(tracks) /\ tj < Len(tracks[ti + 1])
    /\ LET event == tracks[ti + 1][tj + 1]
           d == delta + event.delta
           semitone == Atoi(MapGet(event.value, "noteNumber"))
       IN /\ delta' = d
          /\ IF event.eventType = "channel" /\ event.subType = "noteOn"
             THEN LET note == noteValue(Atoi(MapGet(event.value, "velocity")), Time(timer, d))
                  IN /\ m' = PushNote(m, semitone, note)
                     /\ events' = Append(events, noteEvent(note.velocity, d, TRUE))
                     /\ tj' = tj + 1
                     /\ UNCHANGED <<pc, result, out, prog>>
             ELSE IF event.eventType = "channel" /\ event.subType = "noteOff"
             THEN IF semitone \notin DOMAIN m
                  THEN Finish("invalid semitone") /\ UNCHANGED <<m, events, prog, tj>>
                  ELSE IF m[semitone] = <<>>
                  THEN Finish("panic") /\ UNCHANGED <<m, events, prog, tj>>
                  ELSE LET note == TopNote(m, semitone)
                       IN /\ m' = PopNote(m, semitone)
                          /\ prog' = Append(prog, NoteSegment(timer, semitone, note, d))
                          /\ events' = Append(events, noteEvent(note.velocity, d, FALSE))
                          /\ tj' = tj + 1
                          /\ UNCHANGED <<pc, result, out>>
             ELSE /\ tj' = tj + 1
                  /\ UNCHANGED <<pc, result, out, m, events, prog>>
    /\ UNCHANGED <<input, midiStream, trackCount, timeDivision, i, trackChunk,
                   trackStream, track, tracks, timer, ti, sweep, wav, calls>>

\* an end of the loop over a track's events that also starts a fresh timer
NextTrackFreshTimer ==
    /\ pc = "notes" /\ ti < Len(tracks) /\ ~(tj < Len(tracks[ti + 1]))
    /\ ti' = ti + 1 /\ tj' = 0 /\ delta' = 0 /\ m' = EmptyMap
    /\ timer' = NewTimer(timeDivision)
    /\ UNCHANGED <<input, pc, result, midiStream, trackCount, timeDivision, i,
                   trackChunk, trackStream, track, tracks, prog, events, sweep,
                   wav, out, calls>>

\* the end of the loop over a track's events: the next track, a fresh map
NextTrack ==
    /\ pc = "notes" /\ ti < Len(tracks) /\ ~(tj < Len(tracks[ti + 1]))
    /\ ti' = ti + 1 /\ tj' = 0 /\ delta' = 0 /\ m' = EmptyMap
    /\ UNCHANGED <<input, pc, result, midiStream, trackCount, timeDivision, i,
                   trackChunk, trackStream, track, tracks, timer, prog, events, sweep,
                   wav, out, calls>>

\* a less function that puts the note-on records first at one tick
EventLessOnsFirst(a, b) ==
    \/ a.delta < b.delta
    \/ (a.delta = b.delta /\ a.note # b.note /\ a.note)

\* the less function handed to sort.Slice
EventLess(a, b) ==
    \/ a.delta < b.delta
    \/ (a.delta = b.delta /\ a.note # b.note /\ b.note)

\* what sort.Slice, which is not stable, may leave: any order of the records
\* in which no record is less than one before it
SortedOrders(es) ==
    {s \in {[k \in 1..Len(es) |-> es[f[k]]] : f \in Permutations(1..Len(es))} :
        \A a, b \in 1..Len(es) : a < b => ~EventLess(s[b], s[a])}

\* a sweep that takes the maximum before it adds the velocity of a noteOn
RECURSIVE SweepLoopLate(_, _)
SweepLoopLate(es, s) ==
    IF es = <<>> THEN s
    ELSE LET e == Head(es)
         IN IF e.note
            THEN SweepLoopLate(Tail(es),
                               [maxVelocity |-> Max(s.velocity, s.maxVelocity),
                                velocity |-> s.velocity + e.velocity,
                                maxChord |-> Max(s.chord, s.maxChord),
                                chord |-> s.chord + 1])
            ELSE SweepLoopLate(Tail(es),
                               [s EXCEPT !.velocity = s.velocity - e.velocity,
                                         !.chord = s.chord - 1])

\* the loop over the sorted events
RECURSIVE SweepLoop(_, _)
SweepLoop(es, s) ==
    IF es = <<>> THEN s
    ELSE LET e == Head(es)
         IN IF e.note
            THEN LET velocity == s.velocity + e.velocity
                     chord == s.chord + 1
                 IN SweepLoop(Tail(es),
                              [maxVelocity |-> Max(velocity, s.maxVelocity),
                               velocity |-> velocity,
                               maxChord |-> Max(chord, s.maxChord),
                               chord |-> chord])
            ELSE SweepLoop(Tail(es),
                           [s EXCEPT !.velocity = s.velocity - e.velocity,
                                     !.chord = s.chord - 1])

\* the end of the loop over the tracks: sort.Slice and the sweep
SortAndSweep ==
    /\ pc = "notes" /\ ~(ti < Len(tracks))
    /\ \E s \in SortedOrders(events) :
        /\ events' = s
        /\ sweep' = SweepLoop(s, NoSweep)
    /\ pc' = "wav"
    /\ UNCHANGED <<input, result, midiStream, trackCount, timeDivision, i, trackChunk,
                   trackStream, track, tracks, timer, ti, tj, delta, m, prog, wav,
                   out, calls>>

\* maxAmplitude = 128 / float32(maxVelocity)
maxAmplitude(s) == Fin(128, s.maxVelocity)

\* newWAV(1, 44100, 16, true, ...) and writeProgression(prog, maxAmplitude, {0}, true, true, 1)
Render ==
    /\ pc = "wav"
    /\ \E o \in writeProgression(newWAV(1, 44100, 16, TRUE).wav, prog,
                                 maxAmplitude(sweep), <<0>>, TRUE, TRUE, 1) :
        IF o.panic
        THEN Finish("panic") /\ UNCHANGED wav
        ELSE wav' = o.wav /\ pc' = "buffer" /\ UNCHANGED <<result, out>>
    /\ UNCHANGED <<input, midiStream, trackCount, timeDivision, i, trackChunk,
                   trackStream, track, tracks, timer, ti, tj, delta, m, prog, events,
                   sweep, calls>>

\* return wav.toBuffer(), nil
ReturnBuffer ==
    /\ pc = "buffer"
    /\ LET o == toBuffer(wav)
       IN IF o.panic
          THEN Finish("panic")
          ELSE pc' = "done" /\ result' = "ok" /\ out' = o.buffer
    /\ UNCHANGED <<input, midiStream, trackCount, timeDivision, i, trackChunk,
                   trackStream, track, tracks, timer, ti, tj, delta, m, prog, events,
                   sweep, wav, calls>>

Next ==
    \/ ReadHeader
    \/ ReadTrackChunk
    \/ ReadEvent
    \/ EndTrack
    \/ CheckDivision
    \/ TempoStep
    \/ TempoDone
    \/ NoteStep
    \/ NextTrack
    \/ SortAndSweep
    \/ Render
    \/ ReturnBuffer

Spec == Init /\ [][Next]_vars

\* ------------------------------------------------ properties of MIDIToWAV

Done == pc = "done"

\* the input holds the tag and the declared length of a first chunk
HasFirstChunk == Len(input) >= 8

FirstTag == SubSeq(input, 1, 4)

FirstLength == Uint32At(input, 4)

\* the first chunk is a whole header chunk: tag MThd, length 6, its six bytes
ValidHeader == Len(input) >= 14 /\ FirstTag = MThd /\ FirstLength = 6

DivisionField == Uint16At(input, 12)

TrackCountField == Uint16At(input, 10)

\* the events of a track chunk are whole and fill the chunk exactly
RECURSIVE EventsComplete(_)
EventsComplete(s) ==
    IF s.byteOffset >= Len(s.data) THEN s.byteOffset = Len(s.data)
    ELSE LET o == readEvent(s) IN ~o.panic /\ EventsComplete(o.stream)

\* the n chunks from offset off lie inside the data, the MTrk ones with whole events
RECURSIVE ChunksComplete(_, _, _)
ChunksComplete(data, off, n) ==
    IF n = 0 THEN TRUE
    ELSE /\ off + 8 <= Len(data)
         /\ LET end == off + 8 + Uint32At(data, off + 4)
            IN /\ end <= Len(data)
               /\ StringAt(data, off, 4) = MTrk =>
                      EventsComplete(newMIDIStream(SubSeq(data, off + 9, end)))
               /\ ChunksComplete(data, end, n - 1)

StructurallyComplete == ValidHeader /\ ChunksComplete(input, 14, TrackCountField)

\* C1: an input whose first chunk has another tag than MThd or another declared
\* length than 6 ends with the invalid-header error and no buffer, whatever
\* bytes follow.
C1_InvalidHeaderRejected ==
    (Done /\ HasFirstChunk /\ (FirstTag # MThd \/ FirstLength # 6))
        => (result = "invalid header" /\ out = Nil)

\* the event the note loop is about to process, when it is a noteOff
AtNoteOff ==
    /\ pc = "notes" /\ ti < Len(tracks) /\ tj < Len(tracks[ti + 1])
    /\ tracks[ti + 1][tj + 1].eventType = "channel"
    /\ tracks[ti + 1][tj + 1].subType = "noteOff"

EventPitch(e) == Atoi(MapGet(e.value, "noteNumber"))

IsNoteOn(e) == e.eventType = "channel" /\ e.subType = "noteOn"

IsNoteOff(e) == e.eventType = "channel" /\ e.subType = "noteOff"

\* noteOns minus noteOffs of the pitch among the events from..to of a track
Balance(tr, from, to, pitch) ==
    Cardinality({k \in from..to : IsNoteOn(tr[k]) /\ EventPitch(tr[k]) = pitch})
        - Cardinality({k \in from..to : IsNoteOff(tr[k]) /\ EventPitch(tr[k]) = pitch})

\* the track holds no open noteOn for the pitch of the noteOff about to be processed
AtUnmatchedNoteOff ==
    /\ AtNoteOff
    /\ Balance(tracks[ti + 1], 1, tj, EventPitch(tracks[ti + 1][tj + 1])) = 0

\* C2: processing a noteOff while its track holds no open noteOn of its pitch
\* ends the conversion with the unmatched-noteOff error and no buffer, whether
\* the pitch was never opened or every open was closed before.
C2_UnmatchedNoteOffFails ==
    [][AtUnmatchedNoteOff => (result' = "invalid semitone" /\ out' = Nil)]_vars

\* C3: with a valid header whose division has bit 15 set, the conversion ends
\* with the unsupported-format error and no buffer, whatever the tracks hold.
C3_SmpteRejected ==
    (Done /\ ValidHeader /\ DivisionField >= 32768)
        => (result = "unsupported format" /\ out = Nil)

SpecifiedErrors == {"invalid header", "unsupported format", "invalid semitone"}

\* C4: with a valid header, a tick-based division and whole chunks and events,
\* the conversion ends either with a buffer and no error or with one of the
\* specified errors and no buffer; it never ends abnormally.
C4_CompletesOrFails ==
    (Done /\ StructurallyComplete /\ DivisionField < 32768)
        => \/ (result = "ok" /\ out # Nil)
           \/ (result \in SpecifiedErrors /\ out = Nil)

EventVelocity(e) == Atoi(MapGet(e.value, "velocity"))

\* the cumulative tick of the k-th event of a track
RECURSIVE TrackTick(_, _)
TrackTick(tr, k) == IF k = 0 THEN 0 ELSE TrackTick(tr, k - 1) + tr[k].delta

\* the noteOn that the noteOff j of a track closes under last-in-first-out
\* pairing: the latest earlier noteOn of the pitch with as many noteOns as
\* noteOffs of the pitch between the two; 0 when there is none
RefMatch(tr, j) ==
    LET pitch == EventPitch(tr[j])
        c == {k \in 1..(j - 1) : /\ IsNoteOn(tr[k])
                                 /\ EventPitch(tr[k]) = pitch
                                 /\ Balance(tr, k + 1, j - 1, pitch) = 0}
    IN IF c = {} THEN 0 ELSE CHOOSE k \in c : \A l \in c : l <= k

\* the noteOffs among the first upto events of track n, in order
RECURSIVE OffsOfTrack(_, _)
OffsOfTrack(n, upto) ==
    IF upto = 0 THEN <<>>
    ELSE OffsOfTrack(n, upto - 1)
            \o (IF IsNoteOff(tracks[n][upto]) THEN <<[track |-> n, off |-> upto]>> ELSE <<>>)

RECURSIVE OffsOfTracks(_)
OffsOfTracks(n) ==
    IF n = 0 THEN <<>> ELSE OffsOfTracks(n - 1) \o OffsOfTrack(n, Len(tracks[n]))

\* the noteOffs the note loop has processed so far, in the order of processing
ProcessedOffs ==
    OffsOfTracks(ti) \o (IF ti < Len(tracks) THEN OffsOfTrack(ti + 1, tj) ELSE <<>>)

\* ti and tj are the note loop's, not the tempo loop's
NoteLoopIndices == pc # "tempo"

ExampleNote ==
    HeaderBytes(MThd, 6, 1, 480)
        \o ChunkBytes(MTrk, 9, NoteOnBytes(0, 60, 100) \o NoteOffBytes(480, 60))

\* C6: every noteOff processed emits exactly one segment, with the matched
\* noteOn's time as offset, the time between the two as duration, velocity/128
\* as amplitude and the note name of the pitch; offsets and durations are never
\* negative; the example file gives onset 0, duration 0.5 s and the name C4.
C6_SegmentPerPair ==
    NoteLoopIndices =>
        /\ Len(prog) = Len(ProcessedOffs)
        /\ \A x \in 1..Len(prog) :
            LET p == ProcessedOffs[x]
                tr == tracks[p.track]
                k == RefMatch(tr, p.off)
            IN /\ k > 0
               /\ prog[x].offset = Time(timer, TrackTick(tr, k))
               /\ prog[x].time = FSub(Time(timer, TrackTick(tr, p.off)),
                                      Time(timer, TrackTick(tr, k)))
               /\ prog[x].amplitude = Fin(EventVelocity(tr[k]), 128)
               /\ prog[x].note = noteFromSemitone(EventPitch(tr[k])).name
               /\ FGeqZero(prog[x].offset)
               /\ FGeqZero(prog[x].time)
        /\ (input = ExampleNote /\ pc = "wav") =>
               /\ Len(prog) = 1
               /\ prog[1].offset.n = 0
               /\ 2 * prog[1].time.n = prog[1].time.d
               /\ prog[1].note = <<67, 52>>

\* the sum of the velocities of the matched notes, among the noteOffs offs,
\* that sound at tick t: noteOn tick <= t < noteOff tick
RECURSIVE SoundingSum(_, _)
SoundingSum(offs, t) ==
    IF offs = <<>> THEN 0
    ELSE LET p == Head(offs)
             tr == tracks[p.track]
             k == RefMatch(tr, p.off)
         IN (IF k > 0 /\ TrackTick(tr, k) <= t /\ t < TrackTick(tr, p.off)
             THEN EventVelocity(tr[k]) ELSE 0)
            + SoundingSum(Tail(offs), t)

\* the last tick of any track
RECURSIVE LastTick(_)
LastTick(n) == IF n = 0 THEN 0 ELSE Max(LastTick(n - 1), TrackTick(tracks[n], Len(tracks[n])))

\* the sweep over the sorted events has run
Swept == pc \in {"wav", "buffer"} \/ (Done /\ result = "ok")

C8_HeaderSizes ==
    (Done /\ result = "ok") =>
        /\ LittleEndianUint32(out.header, 4) = 36 + LittleEndianUint32(out.header, 40)
        /\ LittleEndianUint32(out.header, 40) = out.dataSize

\* ------------------------------------------------------ the encoder alone

WAVChannels == {1, 2}

WAVRates == {8000, 44100, 48000}

WAVBits == {8, 16, 24, 32}

\* the times of the segments handed to the encoder, in quarters of a second
WAVTimes == {Fin(0, 4), Fin(1, 4), Fin(2, 4)}

MaxSegments == 2

WAVSegments ==
    {progression(<<67, 52>>, time, Fin(100, 128), offset) :
        time \in WAVTimes, offset \in WAVTimes}

\* a segment named REST alone, and after a segment that sounds
RestProgressions ==
    LET rest == progression(RestName, Fin(1, 4), Fin(100, 128), Fin(0, 4))
    IN {<<rest>>,
        <<progression(<<67, 52>>, Fin(1, 4), Fin(100, 128), Fin(0, 4)), rest>>}

\* C4, E4 and G4 sounding together for 1/1024 s, in each order
ChordProgressions ==
    LET chord == <<progression(<<67, 52>>, Fin(1, 1024), Fin(100, 128), Fin(0, 1024)),
                   progression(<<69, 52>>, Fin(1, 1024), Fin(90, 128), Fin(0, 1024)),
                   progression(<<71, 52>>, Fin(1, 1024), Fin(80, 128), Fin(0, 1024))>>
    IN {[k \in 1..3 |-> chord[p[k]]] : p \in Permutations(1..3)}

\* a segment of 116/2^18 s that starts 256 s + 128/2^18 s into the piece
LongProgressions ==
    {<<progression(<<67, 52>>, Fin(116, 262144), Fin(100, 128), Fin(67108992, 262144))>>}

WAVProgressions ==
    UNION {[1..n -> WAVSegments] : n \in 0..MaxSegments}
        \cup RestProgressions \cup ChordProgressions \cup LongProgressions

InitWAV == input = <<>> /\ pc = "newWAV" /\ Blank

\* newWAV with a configuration of the caller's
CallNewWAV ==
    /\ pc = "newWAV"
    /\ \E numChannels \in WAVChannels, sampleRate \in WAVRates,
          bitsPerSample \in WAVBits, littleEndian \in BOOLEAN :
        LET o == newWAV(numChannels, sampleRate, bitsPerSample, littleEndian)
        IN IF o.err # "nil"
           THEN Finish(o.err) /\ UNCHANGED wav
           ELSE wav' = o.wav /\ pc' = "progression" /\ UNCHANGED <<result, out>>
    /\ UNCHANGED <<input, midiStream, trackCount, timeDivision, i, trackChunk,
                   trackStream, track, tracks, timer, ti, tj, delta, m, prog, events,
                   sweep, calls>>

\* writeProgression with segments and channels of the caller's
CallWriteProgression ==
    /\ pc = "progression"
    /\ \E notes \in WAVProgressions, channels \in {<<>>, <<0>>} :
        /\ prog' = notes
        /\ calls' = <<[channels |-> channels, before |-> wav]>>
        /\ \E o \in writeProgression(wav, notes, Fin(128, 1), channels, TRUE, TRUE, 1) :
            IF o.panic
            THEN Finish("panic") /\ UNCHANGED wav
            ELSE wav' = o.wav /\ pc' = "buffer" /\ UNCHANGED <<result, out>>
    /\ UNCHANGED <<input, midiStream, trackCount, timeDivision, i, trackChunk,
                   trackStream, track, tracks, timer, ti, tj, delta, m, events,
                   sweep>>

NextWAV ==
    \/ CallNewWAV
    \/ CallWriteProgression
    \/ ReturnBuffer

SpecWAV == InitWAV /\ [][NextWAV]_vars

\* C9: for every configuration of the encoder the header of the buffer
\* declares audio format 1 and the configuration: channel count, sample rate,
\* byte rate, block align and bits per sample.
C9_HeaderCarriesConfiguration ==
    (Done /\ result = "ok") =>
        LET bytesPerSample == wav.bitsPerSample \div 8
        IN /\ LittleEndianUint16(out.header, 20) = 1
           /\ LittleEndianUint16(out.header, 22) = wav.numChannels
           /\ LittleEndianUint32(out.header, 24) = wav.sampleRate
           /\ LittleEndianUint32(out.header, 28)
                  = wav.sampleRate * wav.numChannels * bytesPerSample
           /\ LittleEndianUint16(out.header, 32) = wav.numChannels * bytesPerSample
           /\ LittleEndianUint16(out.header, 34) = wav.bitsPerSample

\* -------------------------------------------------------- the timer alone

\* ticks per quarter note of the timers
TimerDivisions == {2, 480}

\* the spans, in ticks, between one tempo change and the next
TimerSpans == {0, 480}

TimerTempos == {250000, 1000000}

\* the ticks Time is asked for
TimerTicks == {0, 480, 600, 960}

MaxCriticalPoints == 2

MaxCalls == 2

InitTimer == input = <<>> /\ pc = "newTimer" /\ Blank

CallNewTimer ==
    /\ pc = "newTimer"
    /\ \E ticksPerBeat \in TimerDivisions : timer' = NewTimer(ticksPerBeat)
    /\ pc' = "timer"
    /\ UNCHANGED <<input, result, midiStream, trackCount, timeDivision, i, trackChunk,
                   trackStream, track, tracks, ti, tj, delta, m, prog, events, sweep,
                   wav, out, calls>>

CallAddCriticalPoint ==
    /\ pc = "timer" /\ Len(timer.criticalPoints) < MaxCriticalPoints
    /\ \E d \in TimerSpans, microsecondsPerBeat \in TimerTempos :
        timer' = AddCriticalPoint(timer, d, microsecondsPerBeat)
    /\ UNCHANGED <<input, pc, result, midiStream, trackCount, timeDivision, i,
                   trackChunk, trackStream, track, tracks, ti, tj, delta, m, prog,
                   events, sweep, wav, out, calls>>

\* a call of Time, which assigns to no field of the timer; calls keeps the
\* argument, the result and the critical points before and after the call
CallTime ==
    /\ pc = "timer" /\ Len(calls) < MaxCalls
    /\ \E d \in TimerTicks :
        calls' = Append(calls, [delta |-> d, time |-> Time(timer, d),
                                before |-> timer.criticalPoints,
                                after |-> timer.criticalPoints])
    /\ UNCHANGED <<input, pc, result, midiStream, trackCount, timeDivision, i,
                   trackChunk, trackStream, track, tracks, timer, ti, tj, delta, m,
                   prog, events, sweep, wav, out>>

NextTimer ==
    \/ CallNewTimer
    \/ CallAddCriticalPoint
    \/ CallTime

SpecTimer == InitTimer /\ [][NextTimer]_vars

\* the tick at which the k-th tempo change lies; tick 0 for k = 0
RECURSIVE ChangeTick(_, _)
ChangeTick(points, k) == IF k = 0 THEN 0 ELSE ChangeTick(points, k - 1) + points[k].delta

\* the tempo between the changes k and k+1
TempoAfter(points, k) ==
    IF k = 0 THEN microsecondsPerBeatDefault ELSE points[k].microsecondsPerBeat

\* the ticks of 0..d that lie between the changes k and k+1
TicksAfter(points, k, d) ==
    IF k = Len(points) THEN d - Min(d, ChangeTick(points, k))
    ELSE Min(d, ChangeTick(points, k + 1)) - Min(d, ChangeTick(points, k))

\* ticks times microseconds per quarter note, summed over the changes 0..k
RECURSIVE IntegralUpTo(_, _, _)
IntegralUpTo(points, k, d) ==
    TicksAfter(points, k, d) * TempoAfter(points, k)
        + (IF k = 0 THEN 0 ELSE IntegralUpTo(points, k - 1, d))

\* the piecewise integral of the tempo map over the ticks 0..d, in seconds
TempoIntegral(points, ticksPerBeat, d) ==
    Fin(IntegralUpTo(points, Len(points), d), ticksPerBeat * microsecondsPerSecond)

ExamplePoint == [delta |-> 480, microsecondsPerBeat |-> 1000000]

\* C10: Time(d) is the piecewise integral of the tempo map, each tick charged
\* at the tempo of the last change before it and 500000 before the first; it
\* depends on d and the critical points alone and leaves the critical points
\* as they were; at 480 ticks per quarter note Time(480) = 0.5 without a
\* critical point, and Time(480) = 0.5, Time(960) = 1.5 with one at tick 480
\* that sets 1000000.
C10_TimeIsIntegral ==
    pc = "timer" =>
        /\ \A x \in 1..Len(calls) :
            LET c == calls[x]
            IN /\ c.time = TempoIntegral(c.before, timer.ticksPerBeat, c.delta)
               /\ c.after = c.before
               /\ (timer.ticksPerBeat = 480 /\ c.before = <<>> /\ c.delta = 480)
                      => 2 * c.time.n = c.time.d
               /\ (timer.ticksPerBeat = 480 /\ c.before = <<ExamplePoint>> /\ c.delta = 480)
                      => 2 * c.time.n = c.time.d
               /\ (timer.ticksPerBeat = 480 /\ c.before = <<ExamplePoint>> /\ c.delta = 960)
                      => 2 * c.time.n = 3 * c.time.d
        /\ \A x, y \in 1..Len(calls) :
            (calls[x].delta = calls[y].delta /\ calls[x].before = calls[y].before)
                => calls[x].time = calls[y].time

\* after an earlier call, Time(960) has crossed the critical point of the example
C10_Witness ==
    /\ pc = "timer" /\ timer.ticksPerBeat = 480 /\ Len(calls) = 2
    /\ calls[1].delta = 480
    /\ calls[2].delta = 960 /\ calls[2].before = <<ExamplePoint>>
    /\ 2 * calls[2].time.n = 3 * calls[2].time.d

\* x <= y for two finite numbers of seconds over one denominator
FLeq(x, y) == IsFinite(x) /\ IsFinite(y) /\ x.d = y.d /\ x.n <= y.n

\* C11: for a timer with ticks per quarter note > 0, spans >= 0 and tempos > 0,
\* Time never decreases when its argument grows: Time(d1) <= Time(d2) for all
\* 0 <= d1 <= d2, among the calls made and for every pair of tick counts.
C11_TimeMonotone ==
    pc = "timer" =>
        /\ \A x, y \in 1..Len(calls) :
            (calls[x].before = calls[y].before /\ calls[x].delta <= calls[y].delta)
                => FLeq(calls[x].time, calls[y].time)
        /\ \A d1, d2 \in TimerTicks :
            d1 <= d2 => FLeq(Time(timer, d1), Time(timer, d2))

\* two calls on one tempo map with two changes, the second call beyond both
\* changes, and the later tick count has the later time
C11_Witness ==
    /\ pc = "timer" /\ Len(calls) = 2 /\ Len(timer.criticalPoints) = 2
    /\ calls[1].before = timer.criticalPoints /\ calls[2].before = timer.criticalPoints
    /\ timer.criticalPoints[1].delta = 480 /\ timer.criticalPoints[2].delta = 480
    /\ calls[1].delta = 600 /\ calls[2].delta = 960
    /\ calls[1].time.n < calls[2].time.n

\* ------------------------------------------------- readVarUint alone

\* bytes with the top bit clear and set, the ends of both ranges among them
VarUintByteValues == {0, 1, 127, 128, 129, 255}

MaxVarUintBytes == 3

VarUintInputs == UNION {[1..n -> VarUintByteValues] : n \in 0..MaxVarUintBytes}

InitVarUint == input \in VarUintInputs /\ pc = "newMIDIStream" /\ Blank

\* newMIDIStream over the input
CallNewMIDIStream ==
    /\ pc = "newMIDIStream"
    /\ midiStream' = newMIDIStream(input)
    /\ pc' = "readVarUint"
    /\ UNCHANGED <<input, result, trackCount, timeDivision, i, trackChunk, trackStream,
                   track, tracks, timer, ti, tj, delta, m, prog, events, sweep, wav,
                   out, calls>>

\* readVarUint at the cursor; calls keeps the cursor before and after the
\* call and the value returned
CallReadVarUint ==
    /\ pc = "readVarUint" /\ midiStream.byteOffset < Len(midiStream.data)
    /\ LET r == readVarUint(midiStream.data, midiStream.byteOffset)
       IN IF r.byteOffset > Len(midiStream.data)
          THEN Finish("panic") /\ UNCHANGED <<midiStream, calls>>
          ELSE /\ midiStream' = [midiStream EXCEPT !.byteOffset = r.byteOffset]
               /\ calls' = Append(calls, [before |-> midiStream.byteOffset,
                                          value |-> r.value,
                                          after |-> r.byteOffset])
               /\ UNCHANGED <<pc, result, out>>
    /\ UNCHANGED <<input, trackCount, timeDivision, i, trackChunk, trackStream, track,
                   tracks, timer, ti, tj, delta, m, prog, events, sweep, wav>>

NextVarUint ==
    \/ CallNewMIDIStream
    \/ CallReadVarUint

SpecVarUint == InitVarUint /\ [][NextVarUint]_vars

\* the 0-based index of the first byte at or after off whose top bit is clear;
\* Len(data) when there is none
FirstClear(data, off) ==
    LET c == {k \in off..(Len(data) - 1) : data[k + 1] < 128}
    IN IF c = {} THEN Len(data) ELSE CHOOSE k \in c : \A l \in c : k <= l

RECURSIVE Pow128(_)
Pow128(n) == IF n = 0 THEN 1 ELSE 128 * Pow128(n - 1)

\* the low 7 bits of the bytes from..to, the first byte the most significant
RECURSIVE SevenBitValue(_, _, _)
SevenBitValue(data, from, to) ==
    IF from > to THEN 0
    ELSE (data[from + 1] % 128) * Pow128(to - from) + SevenBitValue(data, from + 1, to)

\* C12: readVarUint consumes the bytes up to and including the first one whose
\* top bit is clear, returns the low 7 bits of the consumed bytes joined most
\* significant first, and advances the cursor by the number of consumed bytes;
\* 81 00 gives 128, 00 gives 0 and FF 7F gives 16383.
C12_VarUintDecoding ==
    \A x \in 1..Len(calls) :
        LET c == calls[x]
            last == FirstClear(input, c.before)
            bytes == SubSeq(input, c.before + 1, c.after)
        IN /\ last < Len(input)
           /\ c.after = last + 1
           /\ c.value = SevenBitValue(input, c.before, last)
           /\ bytes = <<129, 0>> => c.value = 128
           /\ bytes = <<0>> => c.value = 0
           /\ bytes = <<255, 127>> => c.value = 16383

\* after a one-byte quantity, FF 7F has been decoded to 16383 and the cursor
\* is at the end of the three bytes
C12_Witness ==
    /\ pc = "readVarUint" /\ input = <<1, 255, 127>> /\ Len(calls) = 2
    /\ calls[2].before = 1 /\ calls[2].value = 16383 /\ calls[2].after = 3
    /\ midiStream.byteOffset = 3

\* --------------------------------------------------- the note names alone

\* the number of leading decimal digits of s
RECURSIVE DigitsPrefix(_)
DigitsPrefix(s) ==
    IF s # <<>> /\ Head(s) \in 48..57 THEN 1 + DigitsPrefix(Tail(s)) ELSE 0

\* the tones map of semitoneFromNote, by the code point of the letter
ToneSemitones == (67 :> 0) @@ (68 :> 2) @@ (69 :> 4) @@ (70 :> 5) @@ (71 :> 7)
                 @@ (65 :> 9) @@ (66 :> 11)

\* the octaves of the octaves map, whose keys are their decimal texts
OctaveKeys == -1..10

\* the accidentals map: bb, b, none, #, ##
AccidentalSemitones ==
    (<<98, 98>> :> -2) @@ (<<98>> :> -1) @@ (<<>> :> 0) @@ (<<35>> :> 1)
    @@ (<<35, 35>> :> 2)

\* semitoneFromNote: the regular expression ^([A-G])(\-?\d+)(b{0,2}|#{0,2})$,
\* then the three maps
semitoneFromNote(note) ==
    LET afterTone == IF note = <<>> THEN <<>> ELSE Tail(note)
        signed == afterTone # <<>> /\ Head(afterTone) = 45
        digitsFrom == IF signed THEN Tail(afterTone) ELSE afterTone
        n == DigitsPrefix(digitsFrom)
        octave == SubSeq(afterTone, 1, n + (IF signed THEN 1 ELSE 0))
        accidental == SubSeq(digitsFrom, n + 1, Len(digitsFrom))
        matched == /\ note # <<>> /\ Head(note) \in 65..71
                   /\ n >= 1
                   /\ accidental \in DOMAIN AccidentalSemitones
    IN IF ~matched THEN [semitone |-> 0, err |-> "invalid note"]
       ELSE IF \A k \in OctaveKeys : FormatInt(k) # octave
       THEN [semitone |-> 0, err |-> "invalid octave in note"]
       ELSE [semitone |-> ToneSemitones[Head(note)] + (Atoi(octave) + 1) * 12
                              + AccidentalSemitones[accidental],
             err |-> "nil"]

\* tone A-G, octave -1..10, accidental among bb, b, none, #, ##
ValidNoteNames ==
    {<<tone>> \o FormatInt(octave) \o accidental :
        tone \in 65..71, octave \in OctaveKeys, accidental \in DOMAIN AccidentalSemitones}

\* H4, C11, C, C4b#, C-0, C4bbb and the empty name
OtherNoteNames ==
    {<<72, 52>>, <<67, 49, 49>>, <<67>>, <<67, 52, 98, 35>>, <<67, 45, 48>>,
     <<67, 52, 98, 98, 98>>, <<>>}

InitNote == input \in ValidNoteNames \cup OtherNoteNames /\ pc = "semitoneFromNote" /\ Blank

\* semitoneFromNote(input); calls keeps the semitone
CallSemitoneFromNote ==
    /\ pc = "semitoneFromNote"
    /\ LET r == semitoneFromNote(input)
       IN IF r.err # "nil"
          THEN Finish(r.err) /\ UNCHANGED calls
          ELSE /\ calls' = <<[semitone |-> r.semitone]>>
               /\ pc' = "noteFromSemitone"
               /\ UNCHANGED <<result, out>>
    /\ UNCHANGED <<input, midiStream, trackCount, timeDivision, i, trackChunk,
                   trackStream, track, tracks, timer, ti, tj, delta, m, prog, events,
                   sweep, wav>>

\* noteFromSemitone of that semitone; calls keeps the name
CallNoteFromSemitone ==
    /\ pc = "noteFromSemitone"
    /\ LET o == noteFromSemitone(calls[1].semitone)
       IN IF o.panic THEN Finish("panic") /\ UNCHANGED calls
          ELSE IF o.err THEN Finish("invalid octave") /\ UNCHANGED calls
          ELSE /\ calls' = Append(calls, [name |-> o.name])
               /\ pc' = "done" /\ result' = "ok" /\ out' = Nil
    /\ UNCHANGED <<input, midiStream, trackCount, timeDivision, i, trackChunk,
                   trackStream, track, tracks, timer, ti, tj, delta, m, prog, events,
                   sweep, wav>>

NextNote ==
    \/ CallSemitoneFromNote
    \/ CallNoteFromSemitone

SpecNote == InitNote /\ [][NextNote]_vars

\* the names of the sharp-preferring table: a tone, an octave, no accidental
\* or one sharp on C, D, F, G or A
SharpNames ==
    {<<tone>> \o FormatInt(octave) \o accidental :
        tone \in 65..71, octave \in OctaveKeys, accidental \in {<<>>, <<35>>}}
    \ {<<tone>> \o FormatInt(octave) \o <<35>> : tone \in {69, 66}, octave \in OctaveKeys}

\* C13: for every valid note name the round trip through semitoneFromNote and
\* noteFromSemitone succeeds and gives a name of the sharp-preferring table
\* with the same semitone, the names with a semitone below 0 or above 143
\* included.
C13_NoteRoundTrip ==
    (Done /\ input \in ValidNoteNames) =>
        /\ result = "ok"
        /\ Len(calls) = 2
        /\ calls[2].name \in SharpNames
        /\ semitoneFromNote(calls[2].name).err = "nil"
        /\ semitoneFromNote(calls[2].name).semitone = calls[1].semitone

\* ------------------------------------------------ the chunks of a file

\* the chunks from offset off to the end of the data are whole
RECURSIVE WholeChunks(_, _)
WholeChunks(data, off) ==
    IF off = Len(data) THEN TRUE
    ELSE /\ off + 8 <= Len(data)
         /\ off + 8 + Uint32At(data, off + 4) <= Len(data)
         /\ WholeChunks(data, off + 8 + Uint32At(data, off + 4))

\* the number of whole chunks tagged MTrk from offset off on
RECURSIVE MTrkChunks(_, _)
MTrkChunks(data, off) ==
    IF off + 8 > Len(data) \/ off + 8 + Uint32At(data, off + 4) > Len(data) THEN 0
    ELSE (IF StringAt(data, off, 4) = MTrk THEN 1 ELSE 0)
         + MTrkChunks(data, off + 8 + Uint32At(data, off + 4))

\* the chunk loop has run to its end
ChunkLoopDone == pc \notin {"header", "events"} /\ i = trackCount

\* C14: every chunk tagged MTrk after the header becomes a track and chunks
\* with other tags are skipped without changing that: a file of whole chunks
\* with N MTrk chunks and a header track count of N yields N tracks, with or
\* without other chunks among them.
C14_TracksParsed ==
    (ChunkLoopDone /\ ValidHeader /\ WholeChunks(input, 14)
        /\ MTrkChunks(input, 14) = TrackCountField)
        => Len(tracks) = TrackCountField

\* ------------------------------------------- the events of track streams
\* The loop of MIDIToWAV over the events of each track chunk, run on the data
\* of the track chunks alone: input is the sequence of the chunks' data.

MaxStreamEvents == 3

MaxStreamEventsTwo == 1

\* the events of the generated streams, each with its delta-time
StreamEvents ==
    { <<0, 144, 60, 100>>,          \* noteOn, channel 0
      <<0, 145, 60, 0>>,            \* status 0x91 with velocity 0
      <<0, 130, 60, 64>>,           \* noteOff, channel 2
      <<0, 195, 5>>,                \* programChange, channel 3
      <<0, 60, 100>>,               \* data bytes only
      <<129, 0, 62, 0>>,            \* data bytes only, velocity 0, delta 128
      <<0, 255, 1, 1, 65>>,         \* text of one byte
      <<0, 255, 1, 2, 65>>,         \* text that declares two bytes and has one
      <<0, 255, 81, 3, 7, 161, 32>>, \* setTempo with its three bytes
      <<0, 255, 81, 2, 7, 8>>,      \* setTempo that declares two bytes
      <<0, 255, 47, 0>>,            \* endOfTrack
      <<0, 255, 47, 2, 1>>,         \* endOfTrack that declares two bytes, has one
      <<0, 255, 9, 2, 65, 66>>,     \* a meta type the switch does not name
      <<0, 240, 1, 5>>,             \* sysEx
      <<0, 247, 0>>,                \* dividedSysEx
      <<0, 243, 1, 5>> }            \* another status byte from 0xf0 on

\* the events of the streams generated in pairs
StreamEventsTwo ==
    { <<0, 144, 60, 100>>, <<0, 145, 60, 0>>, <<0, 130, 60, 64>>, <<0, 60, 100>>,
      <<0, 255, 1, 1, 65>>, <<0, 240, 1, 5>> }

StreamInputs ==
    {<<Concat(es)>> : es \in SeqsUpTo(StreamEvents, MaxStreamEvents)}
    \cup {<<Concat(a), Concat(b)>> :
            a \in SeqsUpTo(StreamEventsTwo, MaxStreamEventsTwo),
            b \in SeqsUpTo(StreamEventsTwo, MaxStreamEventsTwo)}

InitEvents == input \in StreamInputs /\ pc = "newMIDIStream" /\ Blank

\* newMIDIStream on the data of the next track chunk
OpenTrackStream ==
    /\ pc = "newMIDIStream" /\ i < Len(input)
    /\ trackStream' = newMIDIStream(input[i + 1])
    /\ track' = <<>>
    /\ pc' = "events"
    /\ UNCHANGED <<input, result, midiStream, trackCount, timeDivision, i, trackChunk,
                   tracks, timer, ti, tj, delta, m, prog, events, sweep, wav, out,
                   calls>>

\* one turn of the loop over the events of the chunk; calls keeps the stream
\* before and after each readEvent that returned
CallReadEvent ==
    /\ pc = "events" /\ trackStream.byteOffset < Len(trackStream.data)
    /\ LET o == readEvent(trackStream)
       IN IF o.panic
          THEN Finish("panic") /\ UNCHANGED <<trackStream, track, calls>>
          ELSE /\ trackStream' = o.stream
               /\ track' = Append(track, o.event)
               /\ calls' = Append(calls, [track |-> i, before |-> trackStream,
                                          event |-> o.event, after |-> o.stream])
               /\ UNCHANGED <<pc, result, out>>
    /\ UNCHANGED <<input, midiStream, trackCount, timeDivision, i, trackChunk, tracks,
                   timer, ti, tj, delta, m, prog, events, sweep, wav>>

\* the end of the loop over the events: the track joins the tracks
CloseTrackStream ==
    /\ pc = "events" /\ ~(trackStream.byteOffset < Len(trackStream.data))
    /\ tracks' = Append(tracks, track)
    /\ i' = i + 1
    /\ pc' = IF i + 1 < Len(input) THEN "newMIDIStream" ELSE "done"
    /\ result' = IF i + 1 < Len(input) THEN result ELSE "ok"
    /\ UNCHANGED <<input, midiStream, trackCount, timeDivision, trackChunk,
                   trackStream, track, timer, ti, tj, delta, m, prog, events, sweep,
                   wav, out, calls>>

NextEvents ==
    \/ OpenTrackStream
    \/ CallReadEvent
    \/ CloseTrackStream

SpecEvents == InitEvents /\ [][NextEvents]_vars

\* the 0-based index of the byte at the status position of a recorded call
StatusPosition(c) == FirstClear(c.before.data, c.before.byteOffset) + 1

StatusByte(c) == ByteAt(c.before.data, StatusPosition(c))

\* the byte is a channel-voice status byte, 0x80 to 0xEF
IsVoiceStatus(b) == b >= 128 /\ b <= 239

\* the most recent channel-voice status byte at a status position among the
\* calls before call x on the same track stream; 0 when there is none
RememberedStatus(x) ==
    LET earlier == {y \in 1..(x - 1) : /\ calls[y].track = calls[x].track
                                       /\ IsVoiceStatus(StatusByte(calls[y]))}
    IN IF earlier = {} THEN 0
       ELSE StatusByte(calls[CHOOSE y \in earlier : \A z \in earlier : z <= y])

\* the subtype a channel-voice status byte stands for, given the second data
\* byte
VoiceSubType(st, second) ==
    CASE st \div 16 = 8 -> "noteOff"
      [] st \div 16 = 9 -> IF second = 0 THEN "noteOff" ELSE "noteOn"
      [] st \div 16 = 10 -> "noteAftertouch"
      [] st \div 16 = 11 -> "controller"
      [] st \div 16 = 12 -> "programChange"
      [] st \div 16 = 13 -> "channelAftertouch"
      [] OTHER -> "pitchBend"

\* the key under which the event keeps its first data byte
FirstDataKey(st) ==
    CASE st \div 16 \in {8, 9, 10} -> "noteNumber"
      [] st \div 16 = 11 -> "controllerNumber"
      [] OTHER -> "value"

\* C15: on every track stream, an event whose status position holds a byte
\* with the top bit clear is decoded with the subtype and the channel of the
\* most recent channel-voice status byte (0x80 to 0xEF) read at a status
\* position of that stream, the byte just read being its first data byte; meta
\* and system events in between leave the remembered status as it is, and each
\* track stream starts with nothing remembered.
C15_RunningStatus ==
    \A x \in 1..Len(calls) :
        LET c == calls[x]
            b == StatusByte(c)
            st == RememberedStatus(x)
            second == ByteAt(c.before.data, StatusPosition(c) + 1)
        IN /\ c.before.lastEventTypeByte = st
           /\ (b < 128 /\ st # 0) =>
                /\ c.event.eventType = "channel"
                /\ c.event.channel = st % 16
                /\ c.event.subType = VoiceSubType(st, second)
                /\ st \div 16 # 14 =>
                     MapGet(c.event.value, FirstDataKey(st)) = FormatDec(b)

\* status 0x91, a text event, then data bytes alone: the third event is a
\* noteOn of pitch 60 on channel 1
C15_Witness ==
    /\ input = << <<0, 145, 60, 0>> \o <<0, 255, 1, 1, 65>> \o <<0, 60, 100>> >>
    /\ Len(calls) = 3
    /\ calls[2].event.eventType = "meta"
    /\ calls[3].event.subType = "noteOn"
    /\ calls[3].event.channel = 1
    /\ MapGet(calls[3].event.value, "noteNumber") = FormatDec(60)

\* two track streams: data bytes alone at the start of the second one are not
\* decoded with the status byte of the first
C15_WitnessTwoTracks ==
    /\ input = << <<0, 144, 60, 100>>, <<0, 60, 100>> >>
    /\ Len(calls) = 2
    /\ calls[2].track = 1
    /\ calls[2].before.lastEventTypeByte = 0
    /\ calls[2].event.subType = "unknown"

\* C16: readEvent returns no event for a status position that holds a byte
\* with the top bit clear when no channel-voice status byte has been read
\* earlier on that stream: it fails instead.
C16_NoRunningStatusWithoutStatus ==
    \A x \in 1..Len(calls) :
        ~(StatusByte(calls[x]) < 128 /\ RememberedStatus(x) = 0)

\* --------------------------------------------- noteOn with velocity zero
\* The conversion of the files with zero-velocity events, with every readEvent
\* call that returned kept in calls.

InitZeroVelocity == input \in ZeroVelocityFiles /\ pc = "header" /\ Blank

\* one turn of the loop over the events of a chunk; calls keeps the stream
\* before and after the call
ReadEventRecorded ==
    /\ pc = "events" /\ trackStream.byteOffset < trackChunk.length
    /\ LET o == readEvent(trackStream)
       IN IF o.panic
          THEN Finish("panic") /\ UNCHANGED <<trackStream, track, calls>>
          ELSE /\ trackStream' = o.stream
               /\ track' = Append(track, o.event)
               /\ calls' = Append(calls, [track |-> Len(tracks), before |-> trackStream,
                                          event |-> o.event, after |-> o.stream])
               /\ UNCHANGED <<pc, result, out>>
    /\ UNCHANGED <<input, midiStream, trackCount, timeDivision, i, trackChunk, tracks,
                   timer, ti, tj, delta, m, prog, events, sweep, wav>>

NextZeroVelocity ==
    \/ ReadHeader
    \/ ReadTrackChunk
    \/ ReadEventRecorded
    \/ EndTrack
    \/ CheckDivision
    \/ TempoStep
    \/ TempoDone
    \/ NoteStep
    \/ NextTrack
    \/ SortAndSweep
    \/ Render
    \/ ReturnBuffer

SpecZeroVelocity == InitZeroVelocity /\ [][NextZeroVelocity]_vars

\* the status byte a recorded call decodes its event with
EffectiveStatus(x) ==
    IF StatusByte(calls[x]) < 128 THEN RememberedStatus(x) ELSE StatusByte(calls[x])

\* the byte a note event's velocity is read from
VelocityByte(x) ==
    ByteAt(calls[x].before.data,
           StatusPosition(calls[x]) + (IF StatusByte(calls[x]) < 128 THEN 1 ELSE 2))

ZeroVelocityNoteOn(x) == EffectiveStatus(x) \div 16 = 9 /\ VelocityByte(x) = 0

StatusNoteOff(x) == EffectiveStatus(x) \div 16 = 8

\* the number of events of the first n tracks
RECURSIVE EventsBefore(_)
EventsBefore(n) == IF n = 0 THEN 0 ELSE EventsBefore(n - 1) + Len(tracks[n])

\* the note loop is about to process an event; CurrentCall is the call that
\* decoded it
AtNoteLoopEvent == pc = "notes" /\ ti < Len(tracks) /\ tj < Len(tracks[ti + 1])

CurrentCall == EventsBefore(ti) + tj + 1

CurrentPitch == EventPitch(tracks[ti + 1][tj + 1])

\* the step closes the latest open note of the current pitch: its stack loses
\* its top, one segment with that note's onset is emitted, one note-end entry
\* joins the events, the other stacks stay
ClosesOpenNote ==
    LET top == m[CurrentPitch][Len(m[CurrentPitch])]
    IN /\ DOMAIN m' = DOMAIN m
       /\ m'[CurrentPitch] = SubSeq(m[CurrentPitch], 1, Len(m[CurrentPitch]) - 1)
       /\ \A q \in DOMAIN m \ {CurrentPitch} : m'[q] = m[q]
       /\ Len(prog') = Len(prog) + 1
       /\ prog'[Len(prog')].offset = top.offset
       /\ prog'[Len(prog')].amplitude = Fin(top.velocity, 128)
       /\ events' = Append(events, noteEvent(top.velocity, delta', FALSE))

\* the step opens no note: no stack grows and no note-start entry is added
OpensNoNote ==
    /\ DOMAIN m' = DOMAIN m
    /\ \A q \in DOMAIN m : Len(m'[q]) <= Len(m[q])
    /\ \A k \in 1..Len(events') : k > Len(events) => ~events'[k].note

\* C17: an event decoded with status nibble 0x9 has subtype noteOff when its
\* velocity byte is 0 and noteOn otherwise, under running status too; in the
\* note loop a zero-velocity event of status 0x9 closes the open note of its
\* pitch, which is also what an event of status 0x8 does, and opens no note.
C17_ZeroVelocityNoteOn ==
    /\ [](\A x \in 1..Len(calls) :
            EffectiveStatus(x) \div 16 = 9 =>
                calls[x].event.subType
                    = IF VelocityByte(x) = 0 THEN "noteOff" ELSE "noteOn")
    /\ [][(AtNoteLoopEvent /\ (ZeroVelocityNoteOn(CurrentCall) \/ StatusNoteOff(CurrentCall)))
            => /\ OpensNoNote
               /\ Balance(tracks[ti + 1], 1, tj, CurrentPitch) > 0 => ClosesOpenNote]_vars

\* status 0x90 with velocity 100, then data bytes alone with velocity 0 one
\* tick later: the second event is a noteOff and has closed the note
C17_Witness ==
    /\ Len(tracks) = 1 /\ Len(calls) = 2
    /\ pc = "notes" /\ ti = 0 /\ tj = 2
    /\ StatusByte(calls[1]) = 144 /\ VelocityByte(1) = 100
    /\ StatusByte(calls[2]) = 60 /\ ZeroVelocityNoteOn(2)
    /\ tracks[1][1].subType = "noteOn" /\ tracks[1][2].subType = "noteOff"
    /\ Len(prog) = 1 /\ m[60] = <<>>
    /\ Len(events) = 2 /\ events[1].note /\ ~events[2].note

\* ------------------------------------------- meta and system events

\* the stream is about to decode an event
AtEvent == pc = "events" /\ trackStream.byteOffset < Len(trackStream.data)

\* the 0-based index of the status byte of the event about to be decoded
NextStatusPosition == FirstClear(trackStream.data, trackStream.byteOffset) + 1

\* the 0-based index of the first length byte of a meta or system event
NextLengthPosition ==
    IF ByteAt(trackStream.data, NextStatusPosition) = 255
    THEN NextStatusPosition + 2
    ELSE NextStatusPosition + 1

\* the 0-based index of the last length byte
NextLengthEnd == FirstClear(trackStream.data, NextLengthPosition)

\* the payload length the event declares
NextDeclaredLength == SevenBitValue(trackStream.data, NextLengthPosition, NextLengthEnd)

\* the event about to be decoded is a meta or system event whose delta-time,
\* status, type and length bytes are in the data
AtSystemEvent ==
    /\ AtEvent
    /\ NextLengthEnd < Len(trackStream.data)
    /\ ByteAt(trackStream.data, NextStatusPosition) >= 240

\* the declared payload lies within the data
PayloadPresent == NextLengthEnd + 1 + NextDeclaredLength <= Len(trackStream.data)

\* readEvent returns and leaves the cursor at the byte after the payload
SkipsPayload ==
    /\ result' # "panic"
    /\ Len(track') = Len(track) + 1
    /\ trackStream'.byteOffset = NextLengthEnd + 1 + NextDeclaredLength

\* C18: for every meta event, whatever its type byte and declared length, and
\* every system event (status 0xF0, 0xF7 or another byte from 0xF0 on),
\* readEvent returns an event and advances the cursor by the delta-time bytes,
\* the status and type bytes, the length bytes and the declared payload
\* length.
C18_SystemEventsSkipped == [][AtSystemEvent => SkipsPayload]_vars

\* the same for the events whose declared payload lies within the data
SystemEventsSkippedWhenPresent ==
    [][(AtSystemEvent /\ PayloadPresent) => SkipsPayload]_vars

\* ------------------------------------------- the critical points of a file

\* the tempo loop over tracks[0] has run to its end
TimerBuilt == pc = "notes"

\* the cumulative ticks of the setTempo events among the first upto events of
\* a track, in order
RECURSIVE SetTempoTicks(_, _)
SetTempoTicks(tr, upto) ==
    IF upto = 0 THEN <<>>
    ELSE SetTempoTicks(tr, upto - 1)
            \o (IF tr[upto].subType = "setTempo" THEN <<TrackTick(tr, upto)>> ELSE <<>>)

\* C19 as stated: after the timer is built from track 0, the tick values
\* stored in its critical points are in non-decreasing order along the list.
C19_StoredTicksOrdered ==
    TimerBuilt =>
        \A k \in 1..(Len(timer.criticalPoints) - 1) :
            timer.criticalPoints[k].delta <= timer.criticalPoints[k + 1].delta

\* C19, amended: after the timer is built from track 0, each critical point
\* stores the ticks from the previous setTempo event of track 0 (from tick 0
\* for the first) to its own, never a negative number; the running sums of the
\* stored values are the ticks of the setTempo events and are in
\* non-decreasing order along the list.
C19_CriticalPointsAreSpans ==
    TimerBuilt =>
        LET points == timer.criticalPoints
            ticks == SetTempoTicks(tracks[1], Len(tracks[1]))
        IN /\ Len(points) = Len(ticks)
           /\ \A k \in 1..Len(points) :
                /\ points[k].delta >= 0
                /\ ChangeTick(points, k) = ticks[k]
                /\ ChangeTick(points, k - 1) <= ChangeTick(points, k)

\* setTempo events at the ticks 2 and 3 of track 0: the stored values are 2
\* and 1
C19_Witness ==
    /\ TimerBuilt
    /\ Len(timer.criticalPoints) = 2
    /\ timer.criticalPoints[1].delta = 2
    /\ timer.criticalPoints[2].delta = 1
    /\ SetTempoTicks(tracks[1], Len(tracks[1])) = <<2, 3>>

\* ------------------------------------------- the tempo map of a file

\* the critical points that the setTempo events among the first upto events
\* of a track give: ticks since the previous one, and the tempo
RECURSIVE TrackPoints(_, _)
TrackPoints(tr, upto) ==
    IF upto = 0 THEN <<>>
    ELSE LET rest == TrackPoints(tr, upto - 1)
         IN IF tr[upto].subType = "setTempo"
            THEN Append(rest, [delta |-> TrackTick(tr, upto) - ChangeTick(rest, Len(rest)),
                               microsecondsPerBeat |-> Atoi(MapGet(tr[upto].value, "value"))])
            ELSE rest

\* the timer that the first track alone gives
FirstTrackTimer ==
    [ticksPerBeat |-> timeDivision,
     criticalPoints |-> TrackPoints(tracks[1], Len(tracks[1]))]

\* velocities opened minus velocities closed by the first upto events of a
\* track, up to tick t; the tempo of no event is looked at
RECURSIVE LevelOfTrack(_, _, _)
LevelOfTrack(tr, upto, t) ==
    IF upto = 0 THEN 0
    ELSE LevelOfTrack(tr, upto - 1, t)
         + (IF TrackTick(tr, upto) > t THEN 0
            ELSE IF IsNoteOn(tr[upto]) THEN EventVelocity(tr[upto])
            ELSE IF IsNoteOff(tr[upto]) /\ RefMatch(tr, upto) > 0
            THEN 0 - EventVelocity(tr[RefMatch(tr, upto)])
            ELSE 0)

RECURSIVE LevelOfTracks(_, _)
LevelOfTracks(n, t) ==
    IF n = 0 THEN 1
    ELSE LevelOfTracks(n - 1, t) + LevelOfTrack(tracks[n], Len(tracks[n]), t)

\* the highest level at any tick
HighestLevel ==
    LET levels == {LevelOfTracks(Len(tracks), t) : t \in 0..LastTick(Len(tracks))}
    IN CHOOSE v \in levels : \A w \in levels : w <= v

\* C20: the tempo map is the first parsed track's alone. The timer holds the
\* critical points of the setTempo events of the first track and nothing of
\* the other tracks; every segment, of the first track or another, has its
\* offset and duration from the times that this timer gives to the ticks of
\* its noteOn and noteOff; the maximum behind the scale factor is fixed by the
\* ticks and velocities of the notes. So files that differ only in the
\* setTempo values of other tracks give equal segments and scale factors.
C20_TempoFromFirstTrack ==
    (pc \in {"notes", "wav"}) =>
        /\ timer = FirstTrackTimer
        /\ \A x \in 1..Len(prog) :
            /\ x <= Len(ProcessedOffs)
            /\ LET p == ProcessedOffs[x]
                   tr == tracks[p.track]
                   k == RefMatch(tr, p.off)
               IN /\ k > 0
                  /\ prog[x].offset = Time(FirstTrackTimer, TrackTick(tr, k))
                  /\ prog[x].time = FSub(Time(FirstTrackTimer, TrackTick(tr, p.off)),
                                         Time(FirstTrackTimer, TrackTick(tr, k)))
        /\ pc = "wav" => sweep.maxVelocity = HighestLevel

\* the first track sets 250000 at tick 1, the second track sets 1000000 at
\* its ticks 1 and 3 around a note from tick 2 to tick 5: the note of the
\* second track starts at 0.1875 s and lasts 0.1875 s, as the first track's
\* tempo gives, and the maximum is 190
C20_Witness ==
    /\ pc = "wav" /\ Len(tracks) = 2 /\ Len(prog) = 2
    /\ timer.criticalPoints = <<[delta |-> 1, microsecondsPerBeat |-> 250000]>>
    /\ TrackPoints(tracks[2], Len(tracks[2]))
         = <<[delta |-> 1, microsecondsPerBeat |-> 1000000],
             [delta |-> 2, microsecondsPerBeat |-> 1000000]>>
    /\ prog[2].offset = Fin(750000, 2 * microsecondsPerSecond)
    /\ prog[2].time = Fin(750000, 2 * microsecondsPerSecond)
    /\ sweep.maxVelocity = 191

\* ------------------------------------------- the sorted chronology

\* 1 plus the velocities of the note-on records minus the velocities of the
\* note-off records among the first k records
RECURSIVE PrefixLevel(_, _)
PrefixLevel(es, k) ==
    IF k = 0 THEN 1
    ELSE PrefixLevel(es, k - 1)
         + (IF es[k].note THEN es[k].velocity ELSE 0 - es[k].velocity)

\* the highest of the levels after 0, 1, ..., Len(es) records
MaxPrefixLevel(es) ==
    LET levels == {PrefixLevel(es, k) : k \in 0..Len(es)}
    IN CHOOSE v \in levels : \A w \in levels : w <= v

\* the note-off records among the records, in order
OffRecords(es) == SelectSeq(es, LAMBDA e : ~e.note)

\* C21: after the sort the records are in non-decreasing order of cumulative
\* tick and, at one tick, every note-off record comes before every note-on
\* record; the maximum the sweep finds is the highest value, along the sorted
\* records, of 1 plus the velocities of the note-ons so far minus those of the
\* note-offs so far; a note-off record carries the velocity of the noteOn it
\* closed.
C21_SortedSweep ==
    /\ Swept =>
        /\ \A a, b \in 1..Len(events) :
              a < b => /\ events[a].delta <= events[b].delta
                       /\ (events[a].delta = events[b].delta /\ events[a].note)
                             => events[b].note
        /\ sweep.maxVelocity = MaxPrefixLevel(events)
    /\ pc = "notes" =>
        /\ Len(OffRecords(events)) = Len(ProcessedOffs)
        /\ \A x \in 1..Len(ProcessedOffs) :
              LET p == ProcessedOffs[x]
                  tr == tracks[p.track]
              IN /\ RefMatch(tr, p.off) > 0
                 /\ OffRecords(events)[x].velocity = EventVelocity(tr[RefMatch(tr, p.off)])
                 /\ OffRecords(events)[x].delta = TrackTick(tr, p.off)

\* noteOn(100) at tick 0, noteOn(40) at tick 1, noteOff at tick 1: the sort has
\* moved the note-off record before the note-on record of tick 1, and the
\* maximum is 101, not 141
C21_Witness ==
    /\ pc = "wav" /\ Len(tracks) = 1 /\ Len(tracks[1]) = 3
    /\ IsNoteOn(tracks[1][1]) /\ IsNoteOn(tracks[1][2]) /\ IsNoteOff(tracks[1][3])
    /\ events = <<noteEvent(100, 0, TRUE), noteEvent(40, 1, FALSE),
                  noteEvent(40, 1, TRUE)>>
    /\ sweep.maxVelocity = 101

\* ---------------------------------------------- the samples of the encoder

\* 440 * 2^((semitone-69)/12) for the semitones 0..11, in thousandths of a hertz
OctaveFrequencies ==
    <<8176, 8662, 9177, 9723, 10301, 10913, 11562, 12250, 12978, 13750, 14568, 15434>>

\* frequencyFromSemitone, in thousandths of a hertz: an octave doubles it
frequencyFromSemitone(semitone) ==
    LET octaveIndex == semitone \div 12
        base == OctaveFrequencies[(semitone % 12) + 1]
    IN IF octaveIndex >= 0 THEN base * 2 ^ octaveIndex ELSE base \div 2 ^ (0 - octaveIndex)

\* the d of the write loop of writeNote at its block, as the sequence of the
\* one term that determines it, or the empty sequence where d is 0: the error
\* of semitoneFromNote is dropped, sin(0) is 0 and so is the fade at block 0
NoteTerm(w, n, scale, block) ==
    LET semitone == semitoneFromNote(n.note).semitone
        frequency == frequencyFromSemitone(semitone)
        blocksOut == RoundToInt(w.sampleRate, n.time)
    IN IF frequency > 0 /\ block > 0 /\ n.amplitude.n # 0 /\ scale.n # 0
       THEN <<[semitone |-> semitone, amplitude |-> n.amplitude, scale |-> scale,
               blocksOut |-> blocksOut, block |-> block]>>
       ELSE <<>>

\* what writeNote, called by writeProgression after seek(n.offset), does to
\* w.data[k]: how many times it writes there and the d of each write
Contribution(w, n, scale, channels, k) ==
    LET numChannels == w.numChannels
        chs == IF channels = <<>> THEN [c \in 1..numChannels |-> c - 1] ELSE channels
        start == numChannels * RoundToInt(w.sampleRate, n.offset)
        blocksOut == RoundToInt(w.sampleRate, n.time)
        rel == k - start
        block == rel \div numChannels
        hits == IF rel >= 0 /\ block < blocksOut
                THEN Len(SelectSeq(chs, LAMBDA c : c = rel % numChannels)) ELSE 0
        d == NoteTerm(w, n, scale, block)
    IN [writes |-> hits, terms |-> IF d = <<>> THEN <<>> ELSE [x \in 1..hits |-> d[1]]]

\* the terms w.data[k] is the sum of after writeProgression, in the order of
\* the additions; without blend a write replaces what is there
RECURSIVE SampleTerms(_, _, _, _, _, _, _)
SampleTerms(w, notes, scale, channels, blend, k, acc) ==
    IF notes = <<>> THEN acc
    ELSE LET c == Contribution(w, Head(notes), scale, channels, k)
             kept == IF blend \/ c.writes = 0 THEN acc ELSE <<>>
             last == IF blend \/ c.terms = <<>> THEN c.terms ELSE <<c.terms[Len(c.terms)]>>
         IN SampleTerms(w, Tail(notes), scale, channels, blend, k, kept \o last)

\* the float32 the additions d + w.data[k] leave: an addition gives the same
\* float32 with its operands exchanged, and adding to the 0 of a fresh buffer
\* gives the other operand, but regrouping additions can change the rounding
SampleValue(terms) ==
    [first |-> {terms[x] : x \in 1..Min(2, Len(terms))},
     twice |-> Len(terms) >= 2 /\ terms[1] = terms[2],
     rest |-> SubSeq(terms, 3, Len(terms))]

\* w.data[k] after writeProgression(notes, scale, channels, blend, ...)
DataAt(w, notes, scale, channels, blend, k) ==
    SampleValue(SampleTerms(w, notes, scale, channels, blend, k, <<>>))

\* the note name is a rest or does not parse
IsRest(n) == semitoneFromNote(n.note).err # "nil"

\* the amplitude the encoder's driver passes to writeProgression
DriverScale == Fin(128, 1)

\* C22: a segment whose note name is a rest or does not parse is rendered
\* without an error and, in additive mode, leaves every sample of the buffer
\* as it is without that segment.
C22_RestWritesSilence ==
    (pc = "buffer" /\ \E x \in 1..Len(prog) : IsRest(prog[x])) =>
        LET w == calls[1].before
            others == SelectSeq(prog, LAMBDA n : ~IsRest(n))
        IN \A k \in 0..(wav.dataLen - 1) :
               DataAt(w, prog, DriverScale, calls[1].channels, TRUE, k)
                   = DataAt(w, others, DriverScale, calls[1].channels, TRUE, k)

\* notes in the order p
Reordered(notes, p) == [k \in 1..Len(notes) |-> notes[p[k]]]

\* the header size fields and the write pointer after rendering prog are those
\* after rendering it in any other order
SizesAndPointerOrderIndependent ==
    pc = "buffer" =>
        LET w == calls[1].before
        IN /\ wav.pointer = w.pointer
           /\ \A p \in Permutations(1..Len(prog)) :
                  \A o \in writeProgression(w, Reordered(prog, p), DriverScale,
                                            calls[1].channels, TRUE, TRUE, 1) :
                      /\ ~o.panic
                      /\ o.wav.header = wav.header
                      /\ o.wav.subChunk2Size = wav.subChunk2Size
                      /\ o.wav.chunkSize = wav.chunkSize
                      /\ o.wav.pointer = w.pointer

\* C23: in additive mode rendering the same segments in any order gives the
\* same sample buffer and the same header size fields, and writeProgression
\* called with reset leaves the write pointer at its value before the call.
C23_OrderIndependent ==
    /\ SizesAndPointerOrderIndependent
    /\ pc = "buffer" =>
           LET w == calls[1].before
           IN \A p \in Permutations(1..Len(prog)) :
                  Reordered(prog, p) # prog =>
                      \A k \in 0..(wav.dataLen - 1) :
                          DataAt(w, Reordered(prog, p), DriverScale, calls[1].channels, TRUE, k)
                              = DataAt(w, prog, DriverScale, calls[1].channels, TRUE, k)

\* typeData returns, with as many bytes as the samples of the buffer take
EncodesWholeBuffer ==
    LET d == typeData(wav)
    IN ~d.panic /\ d.size = wav.dataLen * (wav.bitsPerSample \div 8)

\* at 16, 24 and 32 bits the encoder completes with the bytes of every sample
WideDepthsEncodeWholeBuffer ==
    (pc = "buffer" /\ wav.bitsPerSample \in {16, 24, 32}) => EncodesWholeBuffer

\* C24: for each supported depth (8, 16, 24, 32 bits) the encoding completes
\* for every buffer and emits, after the header, exactly the data size in
\* bytes, bytesPerSample bytes for each sample of the buffer.
C24_EncoderCompletes == pc = "buffer" => EncodesWholeBuffer

\* the highest index of w.data the write loop of writeNote uses for segment n
\* after seek(n.offset)
HighestIndexWritten(w, n, channels) ==
    w.numChannels * RoundToInt(w.sampleRate, n.offset)
        + (RoundToInt(w.sampleRate, n.time) - 1) * w.numChannels
        + MaxChannel(channels, w.numChannels)

\* every index written for the segments of the last writeProgression lies
\* inside the buffer it allocated
WritesInsideBuffer ==
    LET w == calls[1].before
    IN \A x \in 1..Len(prog) :
           RoundToInt(w.sampleRate, prog[x].time) > 0 =>
               HighestIndexWritten(w, prog[x], calls[1].channels) < ProgressionMax(w, prog, 0)

\* C25: the buffer is allocated once, every index written while rendering a
\* segment lies inside it, and the data size recorded after the rendering is
\* the full buffer length times bytesPerSample.
C25_WritesInsideBuffer ==
    /\ (calls # <<>> /\ pc \in {"buffer", "done"}) => WritesInsideBuffer
    /\ pc = "buffer" =>
           /\ wav.dataLen = ProgressionMax(calls[1].before, prog, 0)
           /\ wav.subChunk2Size = wav.dataLen * (wav.bitsPerSample \div 8)

\* with offsets and durations whose sum is a float32 the claim's bound holds
WritesInsideBufferWhenSumIsExact ==
    (prog \notin LongProgressions) => C25_WritesInsideBuffer

====
